---- MODULE Spec2Model ----
(***************************************************************************)
(* Model of the Shelf delta-state CRDT (shelf-crdt): logical clocks, the   *)
(* Value order, Shelf merge / secure_merge, state vectors and deltas, and  *)
(* the simulated replica network of security_sim.rs.                       *)
(***************************************************************************)
EXTENDS Integers, Sequences, FiniteSets, TLC

VARIABLES
    pairing,          \* clock pairing of the shelves of the run
    a, b, c, res,     \* operands and results of the merge laws
    pc,               \* position of the run
    gen, chain,       \* a clock generator and the clocks it has produced
    shelf, inbox,     \* per client: its shelf, the messages in its mailbox
    status,           \* per client: running, terminated or panicked
    edits,            \* number of local writes made so far
    byzantine_split   \* clients with a smaller uid are Byzantine

vars == <<pairing, a, b, c, res, pc, gen, chain, shelf, inbox, status, edits,
          byzantine_split>>

lawVars == <<a, b, c, res>>
clockVars == <<gen, chain>>
netVars == <<shelf, inbox, status, edits, byzantine_split>>

(***************************************************************************)
(* Bounds of the model.                                                    *)
(***************************************************************************)
\* greatest logical counter of a clock drawn as an input
MaxClock == 1

\* greatest number of clocks a generator is asked for in a row
MaxChain == 5

\* clients of the simulated network, local writes they make in total, and
\* messages in flight above which no client advertises
NumClients == 2
MaxEdits == 2
MaxInFlight == 1

\* keys of Map shelves and integer payloads drawn as inputs
Keys == {"x", "y"}
Ints == {1, 2}
ClientIds == {0, 1}
Counters == 0 .. MaxClock

\* clock pairings the code instantiates: <<map clock, value clock>>
Pairings == {"LD", "LS", "LL"}

(***************************************************************************)
(* Ordering results: std::cmp::Ordering wrapped in Option.                 *)
(***************************************************************************)
Less == "Less"
Equal == "Equal"
Greater == "Greater"
NoOrder == "None"

\* usize::cmp / isize::cmp
IntCmp(x, y) == IF x < y THEN Less ELSE IF x > y THEN Greater ELSE Equal

(***************************************************************************)
(* json.rs: Value, its type rank and its partial order.                    *)
(***************************************************************************)
IntV(n) == [ty |-> "Int", v |-> n]
FloatV(f) == [ty |-> "Float", v |-> f]
BoolV(n) == [ty |-> "Bool", v |-> n]
StringV(s) == [ty |-> "String", v |-> s]
ArrayV(s) == [ty |-> "Array", v |-> s]
NullV == [ty |-> "Null", v |-> 0]
\* an f32: a number, or NaN
F32(n) == [nan |-> FALSE, x |-> n]
NaN == [nan |-> TRUE, x |-> 0]

type_rank(value) ==
    CASE value.ty = "Array" -> 5
      [] value.ty = "String" -> 4
      [] value.ty = "Int" -> 3
      [] value.ty = "Float" -> 2
      [] value.ty = "Bool" -> 1
      [] value.ty = "Null" -> 0

\* f32::partial_cmp: NaN is ordered against nothing, itself included
FloatCmp(x, y) == IF x.nan \/ y.nan THEN NoOrder ELSE IntCmp(x.x, y.x)

\* str::partial_cmp: lexicographic over the code units
RECURSIVE StrCmp(_, _)
StrCmp(s, t) ==
    IF s = <<>> /\ t = <<>> THEN Equal
    ELSE IF s = <<>> THEN Less
    ELSE IF t = <<>> THEN Greater
    ELSE IF Head(s) # Head(t) THEN IntCmp(Head(s), Head(t))
    ELSE StrCmp(Tail(s), Tail(t))

RECURSIVE ValueCmp(_, _)

\* Vec<Value>::partial_cmp: lexicographic, the first elements that are not
\* Equal decide
RECURSIVE VecCmp(_, _)
VecCmp(s, t) ==
    IF s = <<>> /\ t = <<>> THEN Equal
    ELSE IF s = <<>> THEN Less
    ELSE IF t = <<>> THEN Greater
    ELSE LET o == ValueCmp(Head(s), Head(t)) IN
         IF o # Equal THEN o ELSE VecCmp(Tail(s), Tail(t))

ValueCmp(x, y) ==
    LET ro == IntCmp(type_rank(x), type_rank(y)) IN
    IF ro # Equal THEN ro
    ELSE CASE x.ty = "Bool" -> IntCmp(x.v, y.v)
           [] x.ty = "Int" -> IntCmp(x.v, y.v)
           [] x.ty = "Float" -> FloatCmp(x.v, y.v)
           [] x.ty = "String" -> StrCmp(x.v, y.v)
           [] x.ty = "Array" -> VecCmp(x.v, y.v)
           [] x.ty = "Null" -> Equal

(***************************************************************************)
(* clock.rs: LamportTimestamp, DotClock, SecureClock and their orders.     *)
(***************************************************************************)
Lamport(n) == [t |-> "L", n |-> n]
Dot(id, n) == [t |-> "D", id |-> id, n |-> n]

\* DefaultHasher over the pair (clock, value), taken as collision-free
Hash(n, value) == <<n, value>>

\* a variant whose hash covers the value alone
SecureClock_newValueOnly(value, n) == [t |-> "S", n |-> n, h |-> Hash(0, value)]

SecureClock_new(value, n) == [t |-> "S", n |-> n, h |-> Hash(n, value)]

verify(clock, value) == clock.h = Hash(clock.n, value)

SecureClock_next(clock, value) == SecureClock_new(value, clock.n + 1)

get_logical_clock(clock) == clock.n

\* ClockGenerator for LamportTimestampGenerator
LamportTimestampGenerator_new_clock == Lamport(0)
LamportTimestampGenerator_next_clock(clock) == Lamport(clock.n + 1)

\* ClockGenerator for DotClockGenerator: next_clock takes the counter of the
\* clock it is given and the client_id of the generator
DotClockGenerator_new_clock(client_id) == Dot(client_id, 0)
DotClockGenerator_next_clock(client_id, clock) == Dot(client_id, clock.n)

LamportCmp(x, y) == IntCmp(x.n, y.n)

\* a variant that breaks the tie of equal counters by client_id
DotCmpById(x, y) ==
    LET o == IntCmp(x.n, y.n) IN
    IF o # Equal THEN o ELSE IntCmp(x.id, y.id)

DotCmp(x, y) ==
    LET o == IntCmp(x.n, y.n) IN
    IF o # Equal THEN o
    ELSE IF x.id = y.id THEN Equal ELSE NoOrder

SecureCmp(x, y) ==
    LET o == IntCmp(x.n, y.n) IN
    IF o = Equal THEN (IF x.h = y.h THEN Equal ELSE NoOrder) ELSE o

\* PartialOrd<DotClock> for LamportTimestamp and the three sibling impls
CrossCmp(x, y) ==
    LET o == IntCmp(x.n, y.n) IN
    IF o = Equal THEN NoOrder ELSE o

\* PartialOrd for ShelfClock: dispatch on the two variants
ShelfClockCmp(x, y) ==
    CASE x.t = "L" /\ y.t = "L" -> LamportCmp(x, y)
      [] x.t = "D" /\ y.t = "D" -> DotCmp(x, y)
      [] x.t = "S" /\ y.t = "S" -> SecureCmp(x, y)
      [] OTHER -> CrossCmp(x, y)

(***************************************************************************)
(* wrap_crdt.rs: Shelf.                                                    *)
(***************************************************************************)
ValueShelf(value, clock) == [kind |-> "Value", value |-> value, clock |-> clock]
MapShelf(shelves, clock) == [kind |-> "Map", shelves |-> shelves, clock |-> clock]

\* a panic!() of the merge: the call does not return a shelf
Panic == [kind |-> "Panic"]

IsMap(s) == s.kind = "Map"
IsValue(s) == s.kind = "Value"

\* PartialOrd for Shelf
ShelfCmp(this, other) ==
    LET co == ShelfClockCmp(this.clock, other.clock) IN
    CASE IsMap(this) /\ IsMap(other) ->
            IF co = Equal THEN NoOrder ELSE co
      [] IsMap(this) /\ IsValue(other) ->
            IF co \in {Equal, NoOrder} THEN Greater ELSE co
      [] IsValue(this) /\ IsMap(other) ->
            IF co \in {Equal, NoOrder} THEN Less ELSE co
      [] IsValue(this) /\ IsValue(other) ->
            IF co \in {Equal, NoOrder}
            THEN ValueCmp(this.value, other.value)
            ELSE co

\* the None branch of merge: order the two shelves by content
MergeByContent(this, other) ==
    LET o == ShelfCmp(this, other) IN
    IF o \in {Greater, Equal} THEN this
    ELSE IF o = Less THEN other
    ELSE Panic

RECURSIVE merge(_, _)

\* a variant of the loop that removes a common key and forgets to
\* re-insert the merged child
MergeChildrenDropped(these_shelves, other_shelves) ==
    [k \in (DOMAIN these_shelves \cup DOMAIN other_shelves)
            \ (DOMAIN these_shelves \cap DOMAIN other_shelves) |->
        IF k \in DOMAIN other_shelves THEN other_shelves[k] ELSE these_shelves[k]]

\* the loop of the Map/Map branch: every entry of other is merged into the
\* entry of self under the same key, or inserted when self has none
MergeChildren(these_shelves, other_shelves) ==
    [k \in DOMAIN these_shelves \cup DOMAIN other_shelves |->
        IF k \in DOMAIN other_shelves
        THEN IF k \in DOMAIN these_shelves
             THEN merge(these_shelves[k], other_shelves[k])
             ELSE other_shelves[k]
        ELSE these_shelves[k]]

\* clock of the merged Map: this_clock if this_clock > other_clock
MergedMapClock(this_clock, other_clock) ==
    IF ShelfClockCmp(this_clock, other_clock) = Greater
    THEN this_clock ELSE other_clock

\* a merge that recurses into two Maps before it looks at their clocks
merge_MapsFirst(this, other) ==
    IF this = Panic \/ other = Panic THEN Panic
    ELSE
    LET clock_order == ShelfClockCmp(this.clock, other.clock) IN
    IF IsMap(this) /\ IsMap(other) THEN
        LET merged == MergeChildren(this.shelves, other.shelves)
        IN IF \E k \in DOMAIN merged : merged[k] = Panic THEN Panic
           ELSE MapShelf(merged, MergedMapClock(this.clock, other.clock))
    ELSE IF clock_order = Less THEN other
    ELSE IF clock_order \in {Greater, Equal} THEN this
    ELSE MergeByContent(this, other)

\* Mergeable::merge for Shelf
merge(this, other) ==
    IF this = Panic \/ other = Panic THEN Panic
    ELSE
    LET clock_order == ShelfClockCmp(this.clock, other.clock) IN
    IF clock_order = Less THEN other
    ELSE IF clock_order = Greater THEN this
    ELSE IF IsMap(this) /\ IsMap(other) THEN
        LET merged == MergeChildren(this.shelves, other.shelves)
        IN IF \E k \in DOMAIN merged : merged[k] = Panic THEN Panic
           ELSE MapShelf(merged, MergedMapClock(this.clock, other.clock))
    ELSE IF clock_order = Equal THEN this
    ELSE MergeByContent(this, other)

\* Shelf::verify_contents
RECURSIVE verify_contents(_)
verify_contents(s) ==
    IF IsValue(s) THEN verify(s.clock, s.value)
    ELSE \A k \in DOMAIN s.shelves : verify_contents(s.shelves[k])

\* a variant that inserts every remote-only child without verifying it
AdmittedUnverified(these_shelves, other_shelves) ==
    DOMAIN other_shelves \ DOMAIN these_shelves

\* keys of other that self lacks and whose whole sub-tree verifies
Admitted(these_shelves, other_shelves) ==
    {k \in DOMAIN other_shelves \ DOMAIN these_shelves :
        verify_contents(other_shelves[k])}

\* Shelf::secure_merge
secure_merge(this, other) ==
    LET sclock_order == ShelfClockCmp(this.clock, other.clock) IN
    IF sclock_order = Less THEN (IF verify_contents(other) THEN other ELSE this)
    ELSE IF sclock_order = Greater THEN this
    ELSE IF IsMap(this) /\ IsMap(other) THEN
        LET sks == DOMAIN this.shelves \cup Admitted(this.shelves, other.shelves)
            secured == [k \in sks |->
                         IF k \in DOMAIN this.shelves
                         THEN IF k \in DOMAIN other.shelves
                              THEN merge(this.shelves[k], other.shelves[k])
                              ELSE this.shelves[k]
                         ELSE other.shelves[k]]
        IN IF \E k \in sks : secured[k] = Panic THEN Panic
           ELSE MapShelf(secured, this.clock)
    ELSE IF sclock_order = Equal THEN this
    ELSE LET o == ShelfCmp(this, other) IN
         IF o \in {Greater, Equal} THEN this
         ELSE IF o = Less THEN (IF verify_contents(other) THEN other ELSE this)
         ELSE Panic

\* a prune that keeps only the children with a strictly greater clock
prune_KeepGreater(s) ==
    IF IsMap(s)
    THEN LET kept == {k \in DOMAIN s.shelves :
                        ShelfClockCmp(s.shelves[k].clock, s.clock) = Greater}
         IN MapShelf([k \in kept |-> s.shelves[k]], s.clock)
    ELSE s

\* Shelf::prune
prune(s) ==
    IF IsMap(s)
    THEN LET kept == {k \in DOMAIN s.shelves :
                        ShelfClockCmp(s.shelves[k].clock, s.clock) # Less}
         IN MapShelf([k \in kept |-> s.shelves[k]], s.clock)
    ELSE s

\* Shelf::garbage_collect
RECURSIVE garbage_collect(_)
garbage_collect(s) ==
    LET pruned == prune(s) IN
    IF IsMap(pruned)
    THEN MapShelf([k \in DOMAIN pruned.shelves |->
                     garbage_collect(pruned.shelves[k])], pruned.clock)
    ELSE pruned

(***************************************************************************)
(* state_vector.rs: StateVector, get_state_vector, get_state_delta.        *)
(***************************************************************************)
Leaf(clock) == [kind |-> "Leaf", clock |-> clock]
Node(children, clock) == [kind |-> "Node", children |-> children, clock |-> clock]

\* Option::None of get_state_delta
NoDelta == [kind |-> "NoDelta"]

RECURSIVE get_state_vector(_)
get_state_vector(s) ==
    IF IsValue(s) THEN Leaf(s.clock)
    ELSE Node([k \in DOMAIN s.shelves |-> get_state_vector(s.shelves[k])], s.clock)

\* a variant that compares with <= and so also withholds a child whose
\* clock is incomparable with the peer's map clock
MissingChildDeltaLe(child, sv_clock) ==
    IF ShelfClockCmp(child.clock, sv_clock) # Greater THEN NoDelta ELSE child

\* delta of a local child that the state vector has no entry for
MissingChildDelta(child, sv_clock) ==
    IF ShelfClockCmp(child.clock, sv_clock) = Less THEN NoDelta ELSE child

RECURSIVE get_state_delta(_, _)

\* a variant whose Map/Node arm returns the Map also when no child gave a
\* delta
get_state_delta_EmptyShell(s, sv) ==
    LET clock_ordering == ShelfClockCmp(s.clock, sv.clock) IN
    IF clock_ordering = Less THEN NoDelta
    ELSE IF clock_ordering = Greater THEN s
    ELSE IF IsMap(s) /\ sv.kind = "Node" THEN
        LET delta(k) ==
                IF k \in DOMAIN sv.children
                THEN get_state_delta(s.shelves[k], sv.children[k])
                ELSE MissingChildDelta(s.shelves[k], sv.clock)
            updated == {k \in DOMAIN s.shelves : delta(k) # NoDelta}
        IN MapShelf([k \in updated |-> delta(k)], s.clock)
    ELSE IF clock_ordering = Equal THEN NoDelta
    ELSE IF IsValue(s) /\ sv.kind = "Node" THEN NoDelta
    ELSE s

\* DeltaCRDT::get_state_delta for Shelf
get_state_delta(s, sv) ==
    LET clock_ordering == ShelfClockCmp(s.clock, sv.clock) IN
    IF clock_ordering = Less THEN NoDelta
    ELSE IF clock_ordering = Greater THEN s
    ELSE IF IsMap(s) /\ sv.kind = "Node" THEN
        LET delta(k) ==
                IF k \in DOMAIN sv.children
                THEN get_state_delta(s.shelves[k], sv.children[k])
                ELSE MissingChildDelta(s.shelves[k], sv.clock)
            updated == {k \in DOMAIN s.shelves : delta(k) # NoDelta}
        IN IF updated # {} THEN MapShelf([k \in updated |-> delta(k)], s.clock)
           ELSE NoDelta
    ELSE IF clock_ordering = Equal THEN NoDelta
    ELSE IF IsValue(s) /\ sv.kind = "Node" THEN NoDelta
    ELSE s

(***************************************************************************)
(* Input shelves.  Leaves carry the value clock of the pairing; a Secure   *)
(* leaf carries a hash over its own counter and over any payload, so that  *)
(* both verifying and tampered leaves occur.                               *)
(***************************************************************************)
ValueClocks(p) ==
    CASE p = "LD" -> {Dot(id, n) : id \in ClientIds, n \in Counters}
      [] p = "LL" -> {Lamport(n) : n \in Counters}
      [] p = "LS" -> {[t |-> "S", n |-> n, h |-> Hash(n, IntV(w))] :
                        n \in Counters, w \in Ints}

MapClocks == {Lamport(n) : n \in Counters}

Leaves(p) == {ValueShelf(IntV(v), cl) : v \in Ints, cl \in ValueClocks(p)}

\* the leaves a second key of a Map is drawn from
YLeaves(p) ==
    {l \in Leaves(p) : l.value = IntV(1)
                       /\ (p = "LD" => l.clock.id = 0)
                       /\ (p = "LS" => verify(l.clock, l.value))}

\* Maps with no child or one child taken from S
Singles(S) ==
    {MapShelf(<<>>, m) : m \in MapClocks}
    \cup {MapShelf([j \in {k} |-> s], m) : k \in Keys, s \in S, m \in MapClocks}

Doubles(p) ==
    {MapShelf([k \in Keys |-> IF k = "x" THEN s ELSE t], m) :
        s \in Leaves(p), t \in YLeaves(p), m \in MapClocks}

Nested(p) ==
    {MapShelf([j \in {"x"} |-> s], m) : s \in Singles(Leaves(p)), m \in MapClocks}

SmallShelves(p) == Leaves(p) \cup Singles(Leaves(p))

Shelves(p) == SmallShelves(p) \cup Doubles(p) \cup Nested(p)

\* no shelf: an input or a result that a specification does not use
Unset == [kind |-> "Unset"]

NoRes == [ab |-> Unset, ba |-> Unset, abb |-> Unset, aa |-> Unset, d |-> Unset,
          ad |-> Unset, add |-> Unset, abc |-> Unset, a_bc |-> Unset,
          sm |-> Unset, order |-> Unset]

\* the variables of the parts of the program that a specification leaves out
LawIdle == a = Unset /\ b = Unset /\ c = Unset /\ res = NoRes
ClockIdle == gen = Unset /\ chain = <<>>
NetIdle ==
    /\ shelf = <<>>
    /\ inbox = <<>>
    /\ status = <<>>
    /\ edits = 0
    /\ byzantine_split = 0

(***************************************************************************)
(* Specification of the merge laws: two shelves a and b are drawn in one   *)
(* clock pairing and the operations of validate_crdt_properties are        *)
(* applied to them.                                                        *)
(***************************************************************************)
InitMerge ==
    /\ pairing \in Pairings
    /\ a \in Shelves(pairing)
    /\ b \in Shelves(pairing)
    /\ c = Unset
    /\ res = NoRes
    /\ pc = "init"
    /\ ClockIdle
    /\ NetIdle

\* a.merge(b) and b.merge(a); then b is merged into a.merge(b) once more
MergeBoth ==
    /\ pc = "init"
    /\ res' = [res EXCEPT !.ab = merge(a, b), !.ba = merge(b, a),
                          !.abb = merge(merge(a, b), b)]
    /\ pc' = "merged"
    /\ UNCHANGED <<pairing, a, b, c, clockVars, netVars>>

\* a.merge(a)
MergeSelf ==
    /\ pc = "init"
    /\ res' = [res EXCEPT !.aa = merge(a, a)]
    /\ pc' = "self_merged"
    /\ UNCHANGED <<pairing, a, b, c, clockVars, netVars>>

\* the forward half of validate_crdt_properties: a receives b's delta
\* against a's state vector, then receives it a second time
DeltaExchange ==
    /\ pc = "init"
    /\ LET sv == get_state_vector(a)
           delta == get_state_delta(b, sv)
           receiver == IF delta # NoDelta THEN merge(a, delta) ELSE a
       IN res' = [res EXCEPT !.d = delta,
                             !.ad = receiver,
                             !.add = IF delta # NoDelta THEN merge(receiver, delta)
                                     ELSE receiver,
                             !.ab = merge(a, b)]
    /\ pc' = "delta_merged"
    /\ UNCHANGED <<pairing, a, b, c, clockVars, netVars>>

NextMerge == MergeBoth \/ MergeSelf \/ DeltaExchange

SpecMerge == InitMerge /\ [][NextMerge]_vars

(***************************************************************************)
(* Specification of associativity: three shelves of one clock pairing.     *)
(***************************************************************************)
\* the shelves the first two operands are drawn from
TinyShelves(p) == Leaves(p) \cup Singles(YLeaves(p))

InitAssoc ==
    /\ pairing \in Pairings
    /\ a \in TinyShelves(pairing)
    /\ b \in TinyShelves(pairing)
    /\ c \in SmallShelves(pairing)
    /\ res = NoRes
    /\ pc = "init"
    /\ ClockIdle
    /\ NetIdle

\* a.merge(b).merge(c) and a.merge(b.merge(c))
MergeThree ==
    /\ pc = "init"
    /\ res' = [res EXCEPT !.abc = merge(merge(a, b), c),
                          !.a_bc = merge(a, merge(b, c))]
    /\ pc' = "merged3"
    /\ UNCHANGED <<pairing, a, b, c, clockVars, netVars>>

NextAssoc == MergeThree

SpecAssoc == InitAssoc /\ [][NextAssoc]_vars

(***************************************************************************)
(* Specification of secure_merge: a local and a remote shelf of the        *)
(* Lamport / Secure pairing; the remote one may hold tampered leaves.      *)
(***************************************************************************)
\* Maps whose only child is a Map of two leaves
NestedDoubles(p) ==
    {MapShelf([j \in {"x"} |-> s], m) : s \in Doubles(p), m \in MapClocks}

SecureShelves == Shelves("LS") \cup NestedDoubles("LS")

InitSecure ==
    /\ pairing = "LS"
    /\ a \in SecureShelves
    /\ b \in SecureShelves
    /\ c = Unset
    /\ res = NoRes
    /\ pc = "init"
    /\ ClockIdle
    /\ NetIdle

\* a.secure_merge(b)
SecureMerge ==
    /\ pc = "init"
    /\ res' = [res EXCEPT !.sm = secure_merge(a, b)]
    /\ pc' = "secured"
    /\ UNCHANGED <<pairing, a, b, c, clockVars, netVars>>

NextSecure == SecureMerge

SpecSecure == InitSecure /\ [][NextSecure]_vars

(***************************************************************************)
(* Specification of the clock generators: a generator is handed a clock of *)
(* its variant and is then asked for the next clock over and over; chain   *)
(* holds the clocks in the order they were produced.                       *)
(***************************************************************************)
Generators ==
    {[kind |-> "Lamport", client_id |-> 0], [kind |-> "Secure", client_id |-> 0]}
    \cup {[kind |-> "Dot", client_id |-> id] : id \in ClientIds}

\* the clocks a generator of kind k may be handed first
FirstClocks(k) ==
    CASE k = "Lamport" -> MapClocks
      [] k = "Dot" -> ValueClocks("LD")
      [] k = "Secure" -> ValueClocks("LS")

InitClock ==
    /\ pairing = "none"
    /\ LawIdle
    /\ pc = "clock"
    /\ gen \in Generators
    /\ \E first \in FirstClocks(gen.kind) : chain = <<first>>
    /\ NetIdle

\* LamportTimestampGenerator::next_clock on the latest clock
LamportNext ==
    /\ gen.kind = "Lamport"
    /\ Len(chain) < MaxChain
    /\ chain' = Append(chain, LamportTimestampGenerator_next_clock(chain[Len(chain)]))
    /\ UNCHANGED <<pairing, lawVars, pc, gen, netVars>>

\* DotClockGenerator::next_clock on the latest clock
DotNext ==
    /\ gen.kind = "Dot"
    /\ Len(chain) < MaxChain
    /\ chain' = Append(chain,
                       DotClockGenerator_next_clock(gen.client_id, chain[Len(chain)]))
    /\ UNCHANGED <<pairing, lawVars, pc, gen, netVars>>

\* SecureClock::next on the latest clock, for a value to be written
SecureNext ==
    /\ gen.kind = "Secure"
    /\ Len(chain) < MaxChain
    /\ \E v \in Ints :
          chain' = Append(chain, SecureClock_next(chain[Len(chain)], IntV(v)))
    /\ UNCHANGED <<pairing, lawVars, pc, gen, netVars>>

NextClock == LamportNext \/ DotNext \/ SecureNext

SpecClock == InitClock /\ [][NextClock]_vars

(***************************************************************************)
(* security_sim.rs: the clients of the simulated network, and the writes   *)
(* of DotShelf (shelf-js) for a network of Lamport / Dot shelves.          *)
(***************************************************************************)
Clients == 0 .. NumClients - 1

\* the sender of Payload::Terminate, which is no client
Harness == NumClients

SHELF_SIZE_LIMIT == 200000

Message_new(from, kind, payload) == [from |-> from, kind |-> kind, payload |-> payload]

\* Client::from_actions: the shelf a client starts with
EmptyShelf == MapShelf(<<>>, Lamport(0))

\* Client::new_network: a client is Byzantine iff uid < byzantine_split
is_byzantine(uid) == uid < byzantine_split

\* HashMap::insert
Put(f, k, v) == [j \in DOMAIN f \cup {k} |-> IF j = k THEN v ELSE f[j]]

Max(m, n) == IF m > n THEN m ELSE n

\* the key sets choose_multiple may pick for removal in random_edit
Removals(sh) ==
    IF Cardinality(DOMAIN sh.shelves) < SHELF_SIZE_LIMIT THEN {{}}
    ELSE {S \in SUBSET DOMAIN sh.shelves : Cardinality(S) = SHELF_SIZE_LIMIT \div 2}

\* Action::random_edit
random_edit(sh, key, value, removed) ==
    IF Cardinality(DOMAIN sh.shelves) < SHELF_SIZE_LIMIT
    THEN MapShelf(Put(sh.shelves, key,
                      ValueShelf(IntV(value), SecureClock_new(IntV(value), sh.clock.n))),
                  sh.clock)
    ELSE MapShelf([k \in DOMAIN sh.shelves \ removed |->
                     ValueShelf(sh.shelves[k].value,
                                SecureClock_new(sh.shelves[k].value,
                                    get_logical_clock(sh.shelves[k].clock) + 1))],
                  Lamport(sh.clock.n + 1))

\* Action::corrupt_clock and Action::corrupt_value on the leaf under key
corrupt_clock(sh, key, n) ==
    MapShelf([sh.shelves EXCEPT ![key].clock.n = n], sh.clock)

corrupt_value(sh, key, value) ==
    MapShelf([sh.shelves EXCEPT ![key].value = IntV(value)], sh.clock)

\* Action::check_corruption: the assertion over the children of the shelf
check_corruption(sh) ==
    \A k \in DOMAIN sh.shelves :
        IsValue(sh.shelves[k]) /\ verify(sh.shelves[k].clock, sh.shelves[k].value)

\* the greatest logical clock among the children of a Map, 0 when it has none
RECURSIVE HighestChild(_, _)
HighestChild(shelves, ks) ==
    IF ks = {} THEN 0
    ELSE LET k == CHOOSE j \in ks : TRUE
         IN Max(get_logical_clock(shelves[k].clock), HighestChild(shelves, ks \ {k}))

\* DotShelf::set with a path of one key and a value as contents
DotShelf_set(sh, key, value, client_id) ==
    LET parent_clock == sh.clock.n
        old_value == sh.shelves[key]
        new_ts ==
            IF key \in DOMAIN sh.shelves
            THEN IF IsValue(old_value)
                 THEN Max(old_value.clock.n, parent_clock) + 1
                 ELSE IF old_value.shelves = <<>> THEN parent_clock + 1
                 ELSE Max(Max(HighestChild(old_value.shelves, DOMAIN old_value.shelves),
                              parent_clock), old_value.clock.n) + 1
            ELSE parent_clock + 1
    IN MapShelf(Put(sh.shelves, key, ValueShelf(IntV(value), Dot(client_id, new_ts))),
                sh.clock)

\* DotShelf::merge
DotShelf_merge(this, delta) == merge(this, delta)

\* Action::process_message on the state st of a client that runs check_inbox:
\* its shelf, the replies it has sent and whether it goes on running
process_message(p, uid, st, message) ==
    CASE message.kind = "StateVector" ->
            LET delta == get_state_delta(st.shelf, message.payload) IN
            IF delta # NoDelta
            THEN [st EXCEPT !.out = Append(@, [to |-> message.from,
                                               msg |-> Message_new(uid, "Delta", delta)])]
            ELSE st
      [] message.kind = "Delta" ->
            LET merged == IF p = "LD" THEN DotShelf_merge(st.shelf, message.payload)
                          ELSE secure_merge(st.shelf, message.payload)
            IN IF merged = Panic THEN [st EXCEPT !.status = "panicked"]
               ELSE [st EXCEPT !.shelf = merged]
      [] message.kind = "Terminate" -> [st EXCEPT !.status = "terminated"]

\* Action::check_inbox: the messages of the mailbox are processed in order
\* until the mailbox is empty or the client stops
RECURSIVE check_inbox(_, _, _, _)
check_inbox(p, uid, st, messages) ==
    IF messages = <<>> \/ st.status # "running" THEN st
    ELSE check_inbox(p, uid, process_message(p, uid, st, Head(messages)), Tail(messages))

\* the messages of out addressed to client q, in the order they were sent
RepliesTo(out, q) ==
    LET mine == SelectSeq(out, LAMBDA e : e.to = q)
    IN [i \in 1 .. Len(mine) |-> mine[i].msg]

\* number of messages in the mailboxes of the clients in S
RECURSIVE InFlight(_)
InFlight(S) ==
    IF S = {} THEN 0
    ELSE LET q == CHOOSE j \in S : TRUE IN Len(inbox[q]) + InFlight(S \ {q})

\* mpsc::Sender::send to client q: the message is lost when q has stopped
Deliver(q, messages) ==
    IF status[q] = "running" THEN inbox[q] \o messages ELSE inbox[q]

CheckInbox(r) ==
    /\ status[r] = "running"
    /\ LET st == check_inbox(pairing, r,
                             [shelf |-> shelf[r], out |-> <<>>, status |-> "running"],
                             inbox[r])
       IN /\ shelf' = [shelf EXCEPT ![r] = st.shelf]
          /\ status' = [status EXCEPT ![r] = st.status]
          /\ inbox' = [q \in Clients |->
                         IF q = r THEN <<>> ELSE Deliver(q, RepliesTo(st.out, q))]
    /\ UNCHANGED <<pairing, lawVars, pc, clockVars, edits, byzantine_split>>

SendUpdate(r) ==
    /\ status[r] = "running"
    /\ InFlight(Clients) < MaxInFlight
    /\ LET sv == get_state_vector(shelf[r])
       IN inbox' = [q \in Clients |->
                      IF q # r THEN Deliver(q, <<Message_new(r, "StateVector", sv)>>)
                      ELSE inbox[q]]
    /\ UNCHANGED <<pairing, lawVars, pc, clockVars, shelf, status, edits,
                   byzantine_split>>

RandomEdit(r) ==
    /\ pairing = "LS"
    /\ status[r] = "running"
    /\ edits < MaxEdits
    /\ \E key \in Keys, value \in Ints, removed \in Removals(shelf[r]) :
          shelf' = [shelf EXCEPT ![r] = random_edit(shelf[r], key, value, removed)]
    /\ edits' = edits + 1
    /\ UNCHANGED <<pairing, lawVars, pc, clockVars, inbox, status, byzantine_split>>

\* a write of the DotShelf of client r
DotSet(r) ==
    /\ pairing = "LD"
    /\ status[r] = "running"
    /\ edits < MaxEdits
    /\ \E key \in Keys, value \in Ints :
          shelf' = [shelf EXCEPT ![r] = DotShelf_set(shelf[r], key, value, r)]
    /\ edits' = edits + 1
    /\ UNCHANGED <<pairing, lawVars, pc, clockVars, inbox, status, byzantine_split>>

CorruptClock(r) ==
    /\ is_byzantine(r)
    /\ status[r] = "running"
    /\ IF shelf[r].shelves = <<>> THEN UNCHANGED shelf
       ELSE \E key \in DOMAIN shelf[r].shelves, n \in Counters :
               shelf' = [shelf EXCEPT ![r] = corrupt_clock(shelf[r], key, n)]
    /\ UNCHANGED <<pairing, lawVars, pc, clockVars, inbox, status, edits,
                   byzantine_split>>

CorruptValue(r) ==
    /\ is_byzantine(r)
    /\ status[r] = "running"
    /\ IF shelf[r].shelves = <<>> THEN UNCHANGED shelf
       ELSE \E key \in DOMAIN shelf[r].shelves, value \in Ints :
               shelf' = [shelf EXCEPT ![r] = corrupt_value(shelf[r], key, value)]
    /\ UNCHANGED <<pairing, lawVars, pc, clockVars, inbox, status, edits,
                   byzantine_split>>

\* an honest client asserts that its leaves verify; the assertion panics
CheckForCorruption(r) ==
    /\ ~is_byzantine(r)
    /\ status[r] = "running"
    /\ status' = IF check_corruption(shelf[r]) THEN status
                 ELSE [status EXCEPT ![r] = "panicked"]
    /\ inbox' = IF check_corruption(shelf[r]) THEN inbox
                ELSE [inbox EXCEPT ![r] = <<>>]
    /\ UNCHANGED <<pairing, lawVars, pc, clockVars, shelf, edits, byzantine_split>>

\* simulate_byzantine_network: when the run time is over, the harness sends
\* Payload::Terminate to every mailbox
Terminate ==
    /\ pc = "running"
    /\ pc' = "terminating"
    /\ inbox' = [q \in Clients |->
                   Deliver(q, <<Message_new(Harness, "Terminate", Unset)>>)]
    /\ UNCHANGED <<pairing, lawVars, clockVars, shelf, status, edits, byzantine_split>>

InitNet ==
    /\ LawIdle
    /\ ClockIdle
    /\ pc = "running"
    /\ shelf = [r \in Clients |-> EmptyShelf]
    /\ inbox = [r \in Clients |-> <<>>]
    /\ status = [r \in Clients |-> "running"]
    /\ edits = 0

(***************************************************************************)
(* Specification of synchronisation: honest clients write, advertise their *)
(* state vector and check their mailbox.  Every client thread runs each of *)
(* its actions again and again: CheckInbox is weakly fair, and SendUpdate, *)
(* which the bound on the messages in flight disables now and then, is     *)
(* strongly fair.  The writes stop after MaxEdits.                         *)
(***************************************************************************)
InitSync ==
    /\ pairing \in {"LS", "LD"}
    /\ byzantine_split = 0
    /\ InitNet

NextSync ==
    \E r \in Clients : RandomEdit(r) \/ DotSet(r) \/ SendUpdate(r) \/ CheckInbox(r)

SpecSync ==
    /\ InitSync
    /\ [][NextSync]_vars
    /\ \A r \in Clients : SF_vars(SendUpdate(r)) /\ WF_vars(CheckInbox(r))

(***************************************************************************)
(* Specification of the Byzantine network of simulate_network_sequential   *)
(* and simulate_byzantine_network: p_byzantine is 0.5.                     *)
(***************************************************************************)
InitByzantine ==
    /\ pairing = "LS"
    /\ byzantine_split = NumClients \div 2
    /\ InitNet

NextByzantine ==
    \/ \E r \in Clients :
          \/ RandomEdit(r)
          \/ SendUpdate(r)
          \/ CheckInbox(r)
          \/ CorruptClock(r)
          \/ CorruptValue(r)
          \/ CheckForCorruption(r)
    \/ Terminate

SpecByzantine == InitByzantine /\ [][NextByzantine]_vars

(***************************************************************************)
(* Specification of SecureClock: a leaf is written again and again, each   *)
(* time with the next clock over the value written; then the value or the  *)
(* counter of the leaf is overwritten, as corrupt_value and corrupt_clock  *)
(* of security_sim.rs do through the public fields.                        *)
(***************************************************************************)
\* the counters rand::random() is taken from when a counter is overwritten
TamperCounters == 0 .. MaxClock + MaxChain

InitSecureClock ==
    /\ pairing = "none"
    /\ LawIdle
    /\ pc = "clock"
    /\ gen = [kind |-> "Secure", client_id |-> 0]
    /\ \E first \in ValueClocks("LS") : chain = <<first>>
    /\ NetIdle

\* the leaf a is written with value v under SecureClock::next of the latest
\* clock
SecureWrite ==
    /\ pc = "clock"
    /\ Len(chain) < MaxChain
    /\ \E v \in Ints :
          LET clock == SecureClock_next(chain[Len(chain)], IntV(v))
          IN /\ chain' = Append(chain, clock)
             /\ a' = ValueShelf(IntV(v), clock)
    /\ UNCHANGED <<pairing, b, c, res, pc, gen, netVars>>

\* the value of the leaf a is overwritten; b keeps the leaf as it was
TamperValue ==
    /\ pc = "clock"
    /\ a # Unset
    /\ \E w \in Ints : a' = [a EXCEPT !.value = IntV(w)]
    /\ b' = a
    /\ pc' = "tampered"
    /\ UNCHANGED <<pairing, c, res, clockVars, netVars>>

\* the counter of the leaf a is overwritten; b keeps the leaf as it was
TamperCounter ==
    /\ pc = "clock"
    /\ a # Unset
    /\ \E n \in TamperCounters : a' = [a EXCEPT !.clock.n = n]
    /\ b' = a
    /\ pc' = "tampered"
    /\ UNCHANGED <<pairing, c, res, clockVars, netVars>>

NextSecureClock == SecureWrite \/ TamperValue \/ TamperCounter

SpecSecureClock == InitSecureClock /\ [][NextSecureClock]_vars

(***************************************************************************)
(* Specification of the clock order: two clocks of one pairing, each the   *)
(* clock of a Map or of a Value, are compared as ShelfClock values.        *)
(***************************************************************************)
InitOrder ==
    /\ pairing \in {"LD", "LS"}
    /\ a \in MapClocks \cup ValueClocks(pairing)
    /\ b \in MapClocks \cup ValueClocks(pairing)
    /\ c = Unset
    /\ res = NoRes
    /\ pc = "init"
    /\ ClockIdle
    /\ NetIdle

\* a.partial_cmp(&b)
Compare ==
    /\ pc = "init"
    /\ res' = [res EXCEPT !.order = ShelfClockCmp(a, b)]
    /\ pc' = "compared"
    /\ UNCHANGED <<pairing, a, b, c, clockVars, netVars>>

NextOrder == Compare

SpecOrder == InitOrder /\ [][NextOrder]_vars

(***************************************************************************)
(* Specification of the tiebreak of concurrent leaf writes: two Value      *)
(* leaves of the Lamport / Dot pairing whose Dot clocks have the same      *)
(* counter and different client ids are merged in both orders.             *)
(***************************************************************************)
\* the code units of "apple" and of "banana"
Apple == <<97, 112, 112, 108, 101>>
Banana == <<98, 97, 110, 97, 110, 97>>

\* values of every type of json.rs
TieValues ==
    {NullV, BoolV(0), BoolV(1), IntV(1), IntV(2), FloatV(F32(1)), FloatV(F32(2)),
     StringV(Apple), StringV(Banana), ArrayV(<<>>), ArrayV(<<IntV(1)>>)}

InitTiebreak ==
    /\ pairing = "LD"
    /\ \E n \in Counters, i, j \in ClientIds, v, w \in TieValues :
          /\ i # j
          /\ a = ValueShelf(v, Dot(i, n))
          /\ b = ValueShelf(w, Dot(j, n))
    /\ c = Unset
    /\ res = NoRes
    /\ pc = "init"
    /\ ClockIdle
    /\ NetIdle

NextTiebreak == MergeBoth

SpecTiebreak == InitTiebreak /\ [][NextTiebreak]_vars

(***************************************************************************)
(* Writes: DotShelf::set, SecureShelf::set and Awareness::set (set_state). *)
(* The contents arrive as JSON and are converted by from_json_values; the  *)
(* entry is found by entry_from_path and the new shelf is stamped with     *)
(* the timestamp computed from the entry it replaces.                      *)
(***************************************************************************)
JsonValue(value) == [json |-> "Value", value |-> value]
JsonObject(obj) == [json |-> "Object", obj |-> obj]

\* Shelf::from_json_values with the generators of the pairing, and
\* secure_from_json_values for the Secure pairing: every clock is a new clock
RECURSIVE from_json_values(_, _, _)
from_json_values(json, p, client_id) ==
    IF json.json = "Object"
    THEN MapShelf([k \in DOMAIN json.obj |->
                      from_json_values(json.obj[k], p, client_id)],
                  LamportTimestampGenerator_new_clock)
    ELSE ValueShelf(json.value,
                    CASE p = "LD" -> DotClockGenerator_new_clock(client_id)
                      [] p = "LL" -> LamportTimestampGenerator_new_clock
                      [] p = "LS" -> SecureClock_new(json.value, 0))

\* a key path that leads nowhere, an entry with no shelf, a failed call
Missing == [kind |-> "Missing"]
Vacant == [kind |-> "Vacant"]
Err(msg) == [kind |-> "Err", msg |-> msg]

\* the messages of the errors of entry_from_path
NoKeyMsg == "Path must have at least one key."
NoMapMsg == "Shelf Map does not exist at key"
OnValueMsg == "Cannot set the key on a Shelf Value"

\* the loop of entry_from_path: the shelf that is to hold the last key
RECURSIVE ParentOf(_, _)
ParentOf(sh, path) ==
    IF Len(path) = 1 THEN sh
    ELSE IF IsMap(sh) /\ Head(path) \in DOMAIN sh.shelves
         THEN ParentOf(sh.shelves[Head(path)], Tail(path))
         ELSE Missing

\* Shelf::entry_from_path
entry_from_path(sh, path) ==
    IF path = <<>> THEN Err(NoKeyMsg)
    ELSE LET update_shelf == ParentOf(sh, path)
             prev_key == path[Len(path)]
         IN IF update_shelf = Missing THEN Err(NoMapMsg)
            ELSE IF IsValue(update_shelf) THEN Err(OnValueMsg)
            ELSE [kind |-> "Entry",
                  entry |-> IF prev_key \in DOMAIN update_shelf.shelves
                            THEN update_shelf.shelves[prev_key]
                            ELSE Vacant,
                  parent_clock |-> update_shelf.clock]

\* a variant that takes the greatest counter without adding one
new_ts_NoIncrement(e) ==
    LET parent_clock == e.parent_clock.n
        old_value == e.entry
    IN IF old_value = Vacant THEN parent_clock
       ELSE IF IsValue(old_value)
            THEN Max(get_logical_clock(old_value.clock), parent_clock)
       ELSE IF old_value.shelves = <<>> THEN parent_clock
       ELSE Max(Max(HighestChild(old_value.shelves, DOMAIN old_value.shelves),
                    parent_clock), old_value.clock.n)

\* new_ts of the three set operations: the counter of the shelf written
new_ts(e) ==
    LET parent_clock == e.parent_clock.n
        old_value == e.entry
    IN IF old_value = Vacant THEN parent_clock + 1
       ELSE IF IsValue(old_value)
            THEN Max(get_logical_clock(old_value.clock), parent_clock) + 1
       ELSE IF old_value.shelves = <<>> THEN parent_clock + 1
       ELSE Max(Max(HighestChild(old_value.shelves, DOMAIN old_value.shelves),
                    parent_clock), old_value.clock.n) + 1

\* the shelf that set inserts: the contents under the new timestamp
Stamped(contents, ts, p, client_id) ==
    IF IsValue(contents)
    THEN ValueShelf(contents.value,
                    CASE p = "LD" -> Dot(client_id, ts)
                      [] p = "LL" -> Lamport(ts)
                      [] p = "LS" -> SecureClock_new(contents.value, ts))
    ELSE MapShelf(contents.shelves, Lamport(ts))

\* Entry::insert at the end of the path
RECURSIVE Insert(_, _, _)
Insert(sh, path, value) ==
    IF Len(path) = 1 THEN MapShelf(Put(sh.shelves, path[1], value), sh.clock)
    ELSE MapShelf([sh.shelves EXCEPT ![Head(path)] = Insert(@, Tail(path), value)],
                  sh.clock)

\* DotShelf::set, SecureShelf::set and Awareness::set_state on the shelf sh;
\* a failed entry_from_path throws and leaves the shelf as it is
set(sh, path, json, p, client_id) ==
    LET e == entry_from_path(sh, path) IN
    IF e.kind = "Err" THEN sh
    ELSE Insert(sh, path,
                Stamped(from_json_values(json, p, client_id), new_ts(e), p, client_id))

\* the key of a client in Awareness.clients: client_id.to_string()
ClientKey(client_id) == ToString(client_id)

\* Awareness::set: the path is prefixed with the key of the client
Awareness_set(clients, client_id, path, json) ==
    set(clients, <<ClientKey(client_id)>> \o path, json, "LL", client_id)

\* Awareness::merge
Awareness_merge(clients, delta) == merge(clients, delta)

\* DotShelf::merge, SecureShelf::merge and Awareness::merge by pairing
MergeOf(p, this, delta) ==
    CASE p = "LD" -> DotShelf_merge(this, delta)
      [] p = "LS" -> secure_merge(this, delta)
      [] p = "LL" -> Awareness_merge(this, delta)

\* set of the replica kind of the pairing
SetOf(p, sh, client_id, path, json) ==
    IF p = "LL" THEN Awareness_set(sh, client_id, path, json)
    ELSE set(sh, path, json, p, client_id)

(***************************************************************************)
(* Specification of the propagation of an overwrite: every replica holds   *)
(* a Value under the key "x" with the same clocks, one replica sets "x"    *)
(* to an empty object, and replicas exchange state vector and delta.       *)
(***************************************************************************)
\* leaves a replica holds: a Secure leaf verifies
HeldLeaves(p) == {l \in Leaves(p) : p = "LS" => verify(l.clock, l.value)}

\* the state of a client: "x" holds a Value, "y" may hold one as well
HeldStates(p) ==
    {MapShelf([j \in {"x"} |-> l], m) : l \in HeldLeaves(p), m \in MapClocks}
    \cup {MapShelf([j \in Keys |-> IF j = "x" THEN l ELSE t], m) :
             l \in HeldLeaves(p), t \in YLeaves(p), m \in MapClocks}

\* the shelf every replica starts with: the state itself, and for Awareness
\* the clients Map that holds the state under the key of every client
HeldShelves(p) ==
    IF p = "LL"
    THEN {MapShelf([k \in {ClientKey(r) : r \in Clients} |-> s], Lamport(0)) :
             s \in HeldStates(p)}
    ELSE HeldStates(p)

InitOverwrite ==
    /\ pairing \in Pairings
    /\ LawIdle
    /\ ClockIdle
    /\ pc = "init"
    /\ \E s \in HeldShelves(pairing) : shelf = [r \in Clients |-> s]
    /\ inbox = <<>>
    /\ status = [r \in Clients |-> "holding"]
    /\ edits = 0
    /\ byzantine_split = 0

\* replica r sets "x" to an empty object
Overwrite(r) ==
    /\ pc = "init"
    /\ shelf' = [shelf EXCEPT ![r] = SetOf(pairing, shelf[r], r, <<"x">>,
                                           JsonObject(<<>>))]
    /\ status' = [status EXCEPT ![r] = "wrote"]
    /\ pc' = "written"
    /\ UNCHANGED <<pairing, lawVars, clockVars, inbox, edits, byzantine_split>>

\* replica r advertises its state vector to q and merges the delta q answers
Exchange(r, q) ==
    /\ r # q
    /\ LET sv == get_state_vector(shelf[r])
           delta == get_state_delta(shelf[q], sv)
       IN shelf' = [shelf EXCEPT ![r] = IF delta # NoDelta
                                        THEN MergeOf(pairing, shelf[r], delta)
                                        ELSE shelf[r]]
    /\ status' = [status EXCEPT ![r] = IF status[r] = "holding" /\ status[q] # "holding"
                                       THEN "synced" ELSE status[r]]
    /\ UNCHANGED <<pairing, lawVars, pc, clockVars, inbox, edits, byzantine_split>>

NextOverwrite ==
    \/ \E r \in Clients : Overwrite(r)
    \/ \E r, q \in Clients : Exchange(r, q)

SpecOverwrite == InitOverwrite /\ [][NextOverwrite]_vars

(***************************************************************************)
(* Specification of the writes of one replica: a DotShelf, a SecureShelf   *)
(* or an Awareness is constructed from JSON and set is called on it.  The  *)
(* shelf before the last call is a, the shelf after it is b, the call is   *)
(* c.                                                                      *)
(***************************************************************************)
\* the client id an Awareness is constructed with
OwnId == 0

\* the contents a replica is constructed with
InitialJson ==
    {JsonValue(IntV(1)),
     JsonObject(<<>>),
     JsonObject("x" :> JsonValue(IntV(1))),
     JsonObject("x" :> JsonObject(<<>>)),
     JsonObject("x" :> JsonObject("y" :> JsonValue(IntV(1))))}

\* the contents of a set call
WrittenJson ==
    {JsonValue(IntV(v)) : v \in Ints}
    \cup {JsonObject(<<>>), JsonObject("y" :> JsonValue(IntV(1)))}

\* the key paths of a set call
WrittenPaths == {<<k>> : k \in Keys} \cup {<<k, j>> : k, j \in Keys}

\* DotShelf::new, SecureShelf::new and Awareness::new with contents
NewReplica(p, json) ==
    IF p = "LL"
    THEN MapShelf(ClientKey(OwnId) :> from_json_values(json, p, OwnId), Lamport(0))
    ELSE from_json_values(json, p, OwnId)

\* the path of a set call in the shelf of the replica
FullPath(p, path) == IF p = "LL" THEN <<ClientKey(OwnId)>> \o path ELSE path

NoCall == [kind |-> "NoCall"]

\* what a set call hands back: the error of entry_from_path, else for
\* Awareness::set_state the shelf Entry::insert replaced, None for a vacant
\* entry; DotShelf::set and SecureShelf::set return nothing
NoShelf == [kind |-> "None"]
Unit == [kind |-> "Unit"]

set_result(p, e) ==
    IF e.kind = "Err" THEN e
    ELSE [kind |-> "Ok",
          old |-> IF p # "LL" THEN Unit
                  ELSE IF e.entry = Vacant THEN NoShelf ELSE e.entry]

InitWrites ==
    /\ pairing \in Pairings
    /\ a = Unset
    /\ \E json \in InitialJson : b = NewReplica(pairing, json)
    /\ c = NoCall
    /\ res = NoRes
    /\ pc = "init"
    /\ ClockIdle
    /\ shelf = <<>>
    /\ inbox = <<>>
    /\ status = <<>>
    /\ edits = 0
    /\ byzantine_split = 0

\* set(path, contents) on the replica
Set ==
    /\ pc \in {"init", "set", "merged_delta"}
    /\ edits < MaxEdits
    /\ \E path \in WrittenPaths, json \in WrittenJson,
          client_id \in IF pairing = "LD" THEN ClientIds ELSE {OwnId} :
          /\ b' = SetOf(pairing, b, client_id, path, json)
          /\ c' = [kind |-> "Call", arg |-> path,
                   path |-> FullPath(pairing, path), json |-> json,
                   ok |-> entry_from_path(b, FullPath(pairing, path)).kind # "Err",
                   result |-> set_result(pairing,
                                         entry_from_path(b, FullPath(pairing, path)))]
    /\ a' = b
    /\ edits' = edits + 1
    /\ pc' = "set"
    /\ UNCHANGED <<pairing, res, clockVars, shelf, inbox, status, byzantine_split>>

NextWrites == Set

SpecWrites == InitWrites /\ [][NextWrites]_vars

(***************************************************************************)
(* Specification of an Awareness replica: it is constructed empty or from  *)
(* JSON, its client writes with set and it merges the deltas of peers.     *)
(* Awareness.clients is b, its value before the last call is a.            *)
(***************************************************************************)
\* Awareness::new_for_client
Awareness_new_for_client == MapShelf(<<>>, Lamport(0))

\* the states of a client that a delta may carry
PeerStates ==
    Leaves("LL")
    \cup {MapShelf(<<>>, m) : m \in MapClocks}
    \cup {MapShelf("x" :> l, m) : l \in Leaves("LL"), m \in MapClocks}

\* the shelves a peer may send as a delta: any ClientShelf deserializes
PeerDeltas ==
    Leaves("LL")
    \cup {MapShelf(ClientKey(r) :> s, Lamport(0)) : r \in Clients, s \in PeerStates}

NewCall == [kind |-> "New"]

InitAwareness ==
    /\ pairing = "LL"
    /\ a = Unset
    /\ \/ b = Awareness_new_for_client /\ c = NewCall
       \/ \E json \in InitialJson : b = NewReplica(pairing, json) /\ c = NoCall
    /\ res = NoRes
    /\ pc = "init"
    /\ ClockIdle
    /\ shelf = <<>>
    /\ inbox = <<>>
    /\ status = <<>>
    /\ edits = 0
    /\ byzantine_split = 0

\* Awareness::merge of a delta received from a peer
MergeDelta ==
    /\ pc \in {"init", "set", "merged_delta"}
    /\ edits < MaxEdits
    /\ \E delta \in PeerDeltas :
          /\ b' = Awareness_merge(b, delta)
          /\ c' = [kind |-> "Merge", delta |-> delta]
    /\ a' = b
    /\ edits' = edits + 1
    /\ pc' = "merged_delta"
    /\ UNCHANGED <<pairing, res, clockVars, shelf, inbox, status, byzantine_split>>

NextAwareness == Set \/ MergeDelta

SpecAwareness == InitAwareness /\ [][NextAwareness]_vars

(***************************************************************************)
(* Specification of the totality of merge: leaves of the Lamport / Dot     *)
(* pairing whose values include the f32 NaN, and Maps that hold such a     *)
(* leaf, are merged in both orders.                                        *)
(***************************************************************************)
\* values with one that is ordered against nothing
PartialValues == {NullV, IntV(1), FloatV(F32(1)), FloatV(NaN)}

PartialLeaves ==
    {ValueShelf(v, cl) : v \in PartialValues, cl \in ValueClocks("LD")}

PartialShelves ==
    PartialLeaves
    \cup {MapShelf("x" :> l, m) : l \in PartialLeaves, m \in MapClocks}

InitTotal ==
    /\ pairing = "LD"
    /\ a \in PartialShelves
    /\ b \in PartialShelves
    /\ c = Unset
    /\ res = NoRes
    /\ pc = "init"
    /\ ClockIdle
    /\ NetIdle

NextTotal == MergeBoth

SpecTotal == InitTotal /\ [][NextTotal]_vars

(***************************************************************************)
(* networking/src/lib.rs: Multicast.  A frame on the bus is a serialized   *)
(* Message or bytes that do not deserialize; every frame published reaches *)
(* the read socket of every Multicast, the one of its sender included.     *)
(***************************************************************************)
\* bincode::serialize of a value of type ty, and bytes that decode as nothing
Serialize(ty, content) == [ty |-> ty, content |-> content]
Garbage == [ty |-> "Garbage", content |-> 0]
DecodeError == [kind |-> "DecodeError"]

\* bincode::deserialize::<ty> is Ok
Decodes(ty, bytes) == bytes.ty = ty

\* bincode::deserialize::<ty>
Deserialize(ty, bytes) == IF bytes.ty = ty THEN bytes.content ELSE DecodeError

\* Message.target: None or Some(id)
NoTarget == [kind |-> "None", id |-> 0]
SomeTarget(id) == [kind |-> "Some", id |-> id]

\* the Message that Multicast::send builds
Multicast_Message(sender, target, data) ==
    [kind |-> "Message", sender |-> sender, target |-> target, data |-> data]

\* try_recv returns None
NoMessage == [kind |-> "NoMessage"]

\* a try_recv that hands every Message to its caller
intended_recipient_Everyone(message, id) == TRUE

\* intended_recipient of try_recv: the target when there is one, any
\* Multicast but the sender otherwise
intended_recipient(message, id) ==
    IF message.target.kind = "Some" THEN message.target.id = id
    ELSE id # message.sender

\* Multicast::try_recv on the frames waiting in the read socket: the message
\* it returns and the frames left in the socket
RECURSIVE Multicast_try_recv(_, _)
Multicast_try_recv(queue, id) ==
    IF queue = <<>> THEN [message |-> NoMessage, rest |-> <<>>]
    ELSE LET message == Deserialize("Message", Head(queue)) IN
         IF ~Decodes("Message", Head(queue))
         THEN [message |-> NoMessage, rest |-> Tail(queue)]
         ELSE IF intended_recipient(message, id)
              THEN [message |-> message, rest |-> Tail(queue)]
              ELSE Multicast_try_recv(Tail(queue), id)

\* Multicast::send: the frame written to the bus
Multicast_send(id, target, data) ==
    Serialize("Message", Multicast_Message(id, target, data))

(***************************************************************************)
(* shelf-crdt-macros: the CRDT generated for a struct of one field, and    *)
(* adjacent_crdt.rs: Doc.                                                  *)
(***************************************************************************)
\* the generated CRDT: the state and the clock of its field
Crdt(state, clocks) == [state |-> state, clocks |-> clocks]

\* Default of the generated CRDT
Crdt_default == Crdt(0, 0)

\* CRDTBackend::new_crdt
new_crdt(data) == Crdt(data, 0)

NoField == [kind |-> "None"]
SomeField(val, time) == [kind |-> "Some", val |-> val, time |-> time]

Crdt_get_state_vector(crdt) == crdt.clocks

\* DeltaCRDT::get_state_delta of the generated CRDT: always Some(delta)
Crdt_get_state_delta(crdt, sv) ==
    IF crdt.clocks >= sv THEN SomeField(crdt.state, crdt.clocks) ELSE NoField

Crdt_merge_ClockOnly(crdt, other) ==
    IF other = NoField THEN crdt
    ELSE IF crdt.clocks < other.time THEN Crdt(other.val, other.time)
    ELSE crdt

\* Mergeable<Delta>::merge of the generated CRDT
Crdt_merge(crdt, other) ==
    IF other = NoField THEN crdt
    ELSE IF crdt.clocks < other.time THEN Crdt(other.val, other.time)
    ELSE IF crdt.clocks = other.time /\ crdt.state < other.val
         THEN Crdt(other.val, crdt.clocks)
    ELSE crdt

\* Mergeable<struct>::merge of the generated CRDT: a local update
Crdt_merge_data(crdt, other) == Crdt(other, crdt.clocks + 1)

\* DocMessage
DocStateVector(clocks, sender) ==
    [kind |-> "StateVector", clocks |-> clocks, sender |-> sender]
DocDelta(diff, recipient) ==
    [kind |-> "Delta", diff |-> diff, recipient |-> recipient]

\* DeltaCRDT::get_state_vector for Doc
Doc_get_state_vector(elements) ==
    [k \in DOMAIN elements |-> Crdt_get_state_vector(elements[k])]

\* DeltaCRDT::get_state_delta for Doc: always Some(doc_delta)
Doc_get_state_delta(elements, sv) ==
    [k \in DOMAIN elements |->
        Crdt_get_state_delta(elements[k],
                             IF k \in DOMAIN sv THEN sv[k]
                             ELSE Crdt_get_state_vector(Crdt_default))]

\* Mergeable<HashMap<String, Delta>>::merge for Doc
Doc_merge(elements, delta_doc) ==
    [k \in DOMAIN elements \cup DOMAIN delta_doc |->
        IF k \in DOMAIN delta_doc
        THEN Crdt_merge(IF k \in DOMAIN elements THEN elements[k] ELSE Crdt_default,
                        delta_doc[k])
        ELSE elements[k]]

\* Doc::sync: the frame it publishes
Doc_sync(elements, id) ==
    Multicast_send(id, NoTarget, DocStateVector(Doc_get_state_vector(elements), id))

\* Doc::apply_updates: the loop over try_recv.  The result holds the
\* elements, the frames left unread, the frames published and, for every
\* message handled, the elements before and after and the frames it caused.
RECURSIVE Doc_apply_updates(_, _, _, _, _)
Doc_apply_updates(elements, queue, id, sent, handled) ==
    LET recv == Multicast_try_recv(queue, id)
        message == recv.message
    IN IF message = NoMessage
       THEN [elements |-> elements, rest |-> recv.rest, sent |-> sent,
             handled |-> handled]
       ELSE LET data == message.data
                reply ==
                    IF data.kind = "StateVector" /\ id # data.sender
                    THEN <<Multicast_send(id, NoTarget,
                              DocDelta(Doc_get_state_delta(elements, data.clocks),
                                       data.sender))>>
                    ELSE <<>>
                merged ==
                    IF data.kind = "Delta" /\ data.recipient = id
                    THEN Doc_merge(elements, data.diff)
                    ELSE elements
            IN Doc_apply_updates(merged, recv.rest, id, sent \o reply,
                   Append(handled, [message |-> message, before |-> elements,
                                    after |-> merged, sent |-> reply]))

\* DeltaCRDT::encode_state_delta: deserialize(sv_bytes).unwrap() panics on
\* bytes that are no state vector
encode_state_delta(elements, sv_bytes) ==
    LET sv == Deserialize("StateVector", sv_bytes) IN
    IF ~Decodes("StateVector", sv_bytes) THEN Panic
    ELSE Serialize("Delta", Doc_get_state_delta(elements, sv))

\* DeltaCRDT::decode_state_delta: Ok(delta) or Err
decode_state_delta(data) == Deserialize("Delta", data)

(***************************************************************************)
(* Specification of a network of Docs on one bus.  Doc r has the id r and  *)
(* its elements in shelf[r]; inbox[r] holds the frames in its read socket. *)
(* Another process on the bus, with an id of its own, publishes frames of  *)
(* any kind.  c is the record of the last call.                            *)
(***************************************************************************)
\* the key every Doc registers its data under
ElementId == "e"

\* the id of the process on the bus that is no Doc
OtherId == NumClients

\* the frames the other process publishes: bytes that are no Message, a
\* broadcast state vector under its own id or under the id of Doc 0, and a
\* Message directed to Doc 0 with a delta for Doc 0 or for Doc 1
ForeignFrames ==
    {Garbage}
    \cup {Multicast_send(OtherId, NoTarget, DocStateVector(ElementId :> 0, s)) :
             s \in {0, OtherId}}
    \cup {Multicast_send(OtherId, SomeTarget(0),
                         DocDelta(ElementId :> SomeField(2, 1), q)) : q \in {0, 1}}

\* the bytes a Doc is handed as a state vector or as a delta
HandedBytes ==
    {Garbage, Serialize("StateVector", ElementId :> 0),
     Serialize("Delta", ElementId :> SomeField(2, 1))}

\* every read socket receives the frames published
Broadcast(queues, frames) == [q \in DOMAIN queues |-> queues[q] \o frames]

InitDoc ==
    /\ pairing = "none"
    /\ LawIdle
    /\ ClockIdle
    /\ pc = "doc"
    /\ shelf = [r \in Clients |-> IF r = 0 THEN <<>> ELSE ElementId :> new_crdt(1)]
    /\ inbox = [r \in Clients |-> <<>>]
    /\ status = [r \in Clients |-> "running"]
    /\ edits = 0
    /\ byzantine_split = 0

\* Doc::apply_updates of Doc r
DocApplyUpdates(r) ==
    /\ pc = "doc"
    /\ status[r] = "running"
    /\ inbox[r] # <<>>
    /\ LET done == Doc_apply_updates(shelf[r], inbox[r], r, <<>>, <<>>) IN
       /\ shelf' = [shelf EXCEPT ![r] = done.elements]
       /\ inbox' = Broadcast([inbox EXCEPT ![r] = done.rest], done.sent)
       /\ c' = [kind |-> "Applied", replica |-> r, queue |-> inbox[r],
                   rest |-> done.rest, handled |-> done.handled]
    /\ UNCHANGED <<pairing, a, b, res, pc, clockVars, status, edits, byzantine_split>>

\* Doc::update of Doc r: apply_updates, merge of the data, sync.  The data
\* of the n-th update of the network is the number n.
DocUpdate(r) ==
    /\ pc = "doc"
    /\ status[r] = "running"
    /\ edits < MaxEdits
    /\ \E data \in {edits + 1} :
          LET done == Doc_apply_updates(shelf[r], inbox[r], r, <<>>, <<>>)
              updated == IF ElementId \in DOMAIN done.elements
                         THEN [done.elements EXCEPT
                                  ![ElementId] = Crdt_merge_data(@, data)]
                         ELSE done.elements
          IN /\ shelf' = [shelf EXCEPT ![r] = updated]
             /\ inbox' = Broadcast([inbox EXCEPT ![r] = done.rest],
                                   Append(done.sent, Doc_sync(updated, r)))
             /\ c' = [kind |-> "Applied", replica |-> r, queue |-> inbox[r],
                   rest |-> done.rest, handled |-> done.handled]
    /\ edits' = edits + 1
    /\ UNCHANGED <<pairing, a, b, res, pc, clockVars, status, byzantine_split>>

\* the other process publishes a frame, while no read socket holds more
\* than MaxInFlight frames
Publish ==
    /\ pc = "doc"
    /\ edits < MaxEdits
    /\ \A q \in Clients : Len(inbox[q]) <= MaxInFlight
    /\ \E frame \in ForeignFrames : inbox' = Broadcast(inbox, <<frame>>)
    /\ edits' = edits + 1
    /\ UNCHANGED <<pairing, lawVars, pc, clockVars, shelf, status, byzantine_split>>

\* Doc r is handed bytes as a state vector: encode_state_delta
EncodeStateDelta(r) ==
    /\ pc = "doc"
    /\ status[r] = "running"
    /\ edits < MaxEdits
    /\ \E bytes \in HandedBytes :
          LET encoded == encode_state_delta(shelf[r], bytes) IN
          /\ status' = [status EXCEPT ![r] = IF encoded = Panic THEN "panicked"
                                             ELSE "running"]
          /\ c' = [kind |-> "Encoded", replica |-> r, bytes |-> bytes,
                   before |-> shelf[r], after |-> shelf[r], result |-> encoded]
    /\ edits' = edits + 1
    /\ UNCHANGED <<pairing, a, b, res, pc, clockVars, shelf, inbox, byzantine_split>>

\* Doc r is handed bytes as a delta: decode_state_delta, and merge when Ok
DecodeStateDelta(r) ==
    /\ pc = "doc"
    /\ status[r] = "running"
    /\ edits < MaxEdits
    /\ \E bytes \in HandedBytes :
          LET decoded == decode_state_delta(bytes) IN
          /\ shelf' = [shelf EXCEPT ![r] = IF ~Decodes("Delta", bytes) THEN @
                                           ELSE Doc_merge(@, decoded)]
          /\ c' = [kind |-> "Decoded", replica |-> r, bytes |-> bytes,
                   before |-> shelf[r], after |-> shelf'[r], result |-> decoded]
    /\ edits' = edits + 1
    /\ UNCHANGED <<pairing, a, b, res, pc, clockVars, inbox, status, byzantine_split>>

NextDoc ==
    \/ \E r \in Clients : DocApplyUpdates(r)
    \/ \E r \in Clients : DocUpdate(r)
    \/ Publish

SpecDoc == InitDoc /\ [][NextDoc]_vars

(***************************************************************************)
(* The same network where a Doc is also handed bytes from outside the bus, *)
(* as a state vector to answer or as a delta to merge.                     *)
(***************************************************************************)
NextCodec ==
    \/ NextDoc
    \/ \E r \in Clients : EncodeStateDelta(r)
    \/ \E r \in Clients : DecodeStateDelta(r)

SpecCodec == InitDoc /\ [][NextCodec]_vars

(***************************************************************************)
(* Specification of pruning: a shelf a is drawn in one clock pairing and   *)
(* prune or garbage_collect is called on it.  c is the record of the call. *)
(***************************************************************************)
InitCollect ==
    /\ pairing \in Pairings
    /\ a \in Shelves(pairing)
    /\ b = Unset
    /\ c = Unset
    /\ res = NoRes
    /\ pc = "init"
    /\ ClockIdle
    /\ NetIdle

\* a.prune()
Prune ==
    /\ pc = "init"
    /\ c' = [kind |-> "Pruned", result |-> prune(a)]
    /\ pc' = "pruned"
    /\ UNCHANGED <<pairing, a, b, res, clockVars, netVars>>

\* a.garbage_collect(), and garbage_collect() on the result once more
GarbageCollect ==
    /\ pc = "init"
    /\ c' = [kind |-> "Collected", result |-> garbage_collect(a),
             again |-> garbage_collect(garbage_collect(a))]
    /\ pc' = "collected"
    /\ UNCHANGED <<pairing, a, b, res, clockVars, netVars>>

NextCollect == Prune \/ GarbageCollect

SpecCollect == InitCollect /\ [][NextCollect]_vars

(***************************************************************************)
(* Specification of one round of mutual exchange, after                    *)
(* test_generated_shelves: two garbage-collected shelves with Lamport map  *)
(* clocks and Dot value clocks send each other the delta against the       *)
(* other's state vector.  c is the record of the round.                    *)
(***************************************************************************)
CollectedShelves == {garbage_collect(s) : s \in Shelves("LD")}

InitExchange ==
    /\ pairing = "LD"
    /\ a \in CollectedShelves
    /\ b \in CollectedShelves
    /\ c = Unset
    /\ res = NoRes
    /\ pc = "init"
    /\ ClockIdle
    /\ NetIdle

\* forwards and backwards of test_generated_shelves, and the forward delta
\* applied a second time
MutualExchange ==
    /\ pc = "init"
    /\ LET delta == get_state_delta(b, get_state_vector(a))
           receiver == IF delta # NoDelta THEN merge(a, delta) ELSE a
           delta_back == get_state_delta(a, get_state_vector(b))
           receiver_back == IF delta_back # NoDelta THEN merge(b, delta_back) ELSE b
       IN c' = [kind |-> "Exchanged", delta |-> delta, delta_back |-> delta_back,
                receiver |-> receiver, receiver_back |-> receiver_back,
                again |-> IF delta # NoDelta THEN merge(receiver, delta)
                          ELSE receiver]
    /\ pc' = "exchanged"
    /\ UNCHANGED <<pairing, a, b, res, clockVars, netVars>>

NextExchange == MutualExchange

SpecExchange == InitExchange /\ [][NextExchange]_vars

(***************************************************************************)
(* Specification of shutdown: the thread of an honest client calls         *)
(* Client::step again and again until it returns a shelf.  A step runs     *)
(* every action of Client::new that is due, in the order of the list, and  *)
(* looks for Action::Terminate among the follow-ups only afterwards.       *)
(***************************************************************************)
\* the actions of Client::new, by their place in the list
HonestActions == <<"CheckInbox", "SendUpdate", "RandomEdit", "CheckForCorruption">>

\* the follow-up action check_inbox returns joins the follow-ups of the step
FollowUp(after) ==
    IF after.status = "terminated"
    THEN [after EXCEPT !.held = after.shelf, !.follow_ups = Append(@, "Terminate")]
    ELSE after

\* ClientAction::act of the action called name on the state st of the step
ClientAction_act(p, uid, st, name, messages, key, value, removed) ==
    CASE name = "CheckInbox" -> FollowUp(check_inbox(p, uid, st, messages))
      [] name = "SendUpdate" ->
            [st EXCEPT !.advertised = Append(@, get_state_vector(st.shelf)),
                       !.sent_after = @ \/ st.follow_ups # <<>>]
      [] name = "RandomEdit" ->
            [st EXCEPT !.shelf = random_edit(st.shelf, key, value, removed),
                       !.edited_after = @ \/ st.follow_ups # <<>>]
      [] name = "CheckForCorruption" ->
            IF check_corruption(st.shelf) THEN st ELSE [st EXCEPT !.status = "panicked"]

\* Client::step: the due actions of the list from place i on act in order
RECURSIVE Client_step(_, _, _, _, _, _, _, _, _)
Client_step(p, uid, st, i, due, messages, key, value, removed) ==
    IF i > Len(HonestActions) \/ st.status = "panicked" THEN st
    ELSE Client_step(p, uid,
                     IF HonestActions[i] \in due
                     THEN ClientAction_act(p, uid, st, HonestActions[i], messages,
                                           key, value, removed)
                     ELSE st,
                     i + 1, due, messages, key, value, removed)

\* number of state vectors and deltas in the mailboxes of the clients in S
RECURSIVE Undelivered(_)
Undelivered(S) ==
    IF S = {} THEN 0
    ELSE LET q == CHOOSE j \in S : TRUE
         IN Len(SelectSeq(inbox[q], LAMBDA m : m.kind # "Terminate"))
            + Undelivered(S \ {q})

\* the sets of actions ClientAction::should_run may find due: the interval
\* of CheckForCorruption is zero
DueSets ==
    {due \in SUBSET {"CheckInbox", "SendUpdate", "RandomEdit", "CheckForCorruption"} :
        /\ due # {}
        /\ "SendUpdate" \in due => Undelivered(Clients) < MaxInFlight
        /\ "RandomEdit" \in due => edits < MaxEdits}

StateVectorsTo(uid, svs) ==
    [i \in 1 .. Len(svs) |-> Message_new(uid, "StateVector", svs[i])]

\* the state of the network after a step of client r that ended in st
Stepped(r, due, st) ==
    /\ shelf' = [shelf EXCEPT ![r] = st.shelf]
    /\ status' = [status EXCEPT ![r] = st.status]
    /\ inbox' = [q \in Clients |->
                   IF q = r
                   THEN IF "CheckInbox" \in due \/ st.status # "running"
                        THEN <<>> ELSE inbox[r]
                   ELSE Deliver(q, RepliesTo(st.out, q)
                                   \o StateVectorsTo(r, st.advertised))]
    /\ edits' = IF "RandomEdit" \in due /\ st.status # "panicked"
                THEN edits + 1 ELSE edits
    /\ c' = IF st.follow_ups # <<>>
            THEN [kind |-> "Returned", client |-> r, held |-> st.held,
                  returned |-> st.shelf, sent_after |-> st.sent_after,
                  edited_after |-> st.edited_after]
            ELSE c

ClientStep(r) ==
    /\ status[r] = "running"
    /\ \E due \in DueSets :
       \E key \in IF "RandomEdit" \in due THEN Keys ELSE {"x"},
          value \in IF "RandomEdit" \in due THEN Ints ELSE {1},
          removed \in Removals(shelf[r]) :
          Stepped(r, due,
                  Client_step(pairing, r,
                              [shelf |-> shelf[r], out |-> <<>>, status |-> "running",
                               follow_ups |-> <<>>, held |-> Unset,
                               advertised |-> <<>>, sent_after |-> FALSE,
                               edited_after |-> FALSE],
                              1, due, inbox[r], key, value, removed))
    /\ UNCHANGED <<pairing, a, b, res, pc, clockVars, byzantine_split>>

\* the harness sends Payload::Terminate to every mailbox
SendTerminate ==
    /\ pc = "running"
    /\ pc' = "terminating"
    /\ inbox' = [q \in Clients |->
                   Deliver(q, <<Message_new(Harness, "Terminate", Unset)>>)]
    /\ UNCHANGED <<pairing, lawVars, clockVars, shelf, status, edits, byzantine_split>>

InitShutdown ==
    /\ pairing = "LS"
    /\ byzantine_split = 0
    /\ InitNet

NextShutdown == (\E r \in Clients : ClientStep(r)) \/ SendTerminate

SpecShutdown == InitShutdown /\ [][NextShutdown]_vars

(***************************************************************************)
(* Specification of the derived CRDT of tests/example.rs: two replicas of  *)
(* MyData {name, fav_num} are created from the same data, updated locally  *)
(* and synchronised by exchanging state deltas.  A name is modelled by its *)
(* rank in the order of String, which is total like the order of usize.    *)
(***************************************************************************)
Props == {"name", "fav_num"}

MyData(name, fav_num) == [name |-> name, fav_num |-> fav_num]

MyDataValues == {MyData(name, fav_num) : name \in Ints, fav_num \in Ints}

\* CRDTBackend::new_crdt for MyData: every clock is the default
MyData_new_crdt(data) == [prop \in Props |-> new_crdt(data[prop])]

\* DeltaCRDT::get_state_vector of the generated MyDataCRDT
MyData_get_state_vector(crdt) == [prop \in Props |-> Crdt_get_state_vector(crdt[prop])]

\* DeltaCRDT::get_state_delta of the generated MyDataCRDT
MyData_get_state_delta(crdt, sv) ==
    [prop \in Props |-> Crdt_get_state_delta(crdt[prop], sv[prop])]

\* Mergeable<MyDataDelta>::merge of the generated MyDataCRDT
MyData_merge(crdt, other) == [prop \in Props |-> Crdt_merge(crdt[prop], other[prop])]

\* Mergeable<MyData>::merge of the generated MyDataCRDT
MyData_merge_data(crdt, other) ==
    [prop \in Props |-> Crdt_merge_data(crdt[prop], other[prop])]

InitDerive ==
    /\ pairing = "LL"
    /\ \E data \in MyDataValues :
          /\ a = MyData_new_crdt(data)
          /\ b = MyData_new_crdt(data)
    /\ c = Unset
    /\ res = NoRes
    /\ pc = "created"
    /\ ClockIdle
    /\ NetIdle

\* crdt.merge(my_data) of the first replica
UpdateFirst ==
    /\ edits < MaxEdits
    /\ \E data \in MyDataValues : a' = MyData_merge_data(a, data)
    /\ edits' = edits + 1
    /\ pc' = "updated"
    /\ UNCHANGED <<pairing, b, c, res, clockVars, shelf, inbox, status, byzantine_split>>

\* crdt2.merge(data2) of the second replica
UpdateSecond ==
    /\ edits < MaxEdits
    /\ \E data \in MyDataValues : b' = MyData_merge_data(b, data)
    /\ edits' = edits + 1
    /\ pc' = "updated"
    /\ UNCHANGED <<pairing, a, c, res, clockVars, shelf, inbox, status, byzantine_split>>

\* partial_update: both deltas are computed, then each replica merges the
\* delta of the other
SyncBoth ==
    /\ pc # "synced"
    /\ LET delta == MyData_get_state_delta(a, MyData_get_state_vector(b))
           delta2 == MyData_get_state_delta(b, MyData_get_state_vector(a))
       IN /\ b' = MyData_merge(b, delta)
          /\ a' = MyData_merge(a, delta2)
          /\ c' = [kind |-> "Synced", crdt |-> a, crdt2 |-> b,
                   delta |-> delta, delta2 |-> delta2]
    /\ pc' = "synced"
    /\ UNCHANGED <<pairing, res, clockVars, netVars>>

\* basic_use in both directions: the second replica merges the delta of the
\* first, then the first merges the delta the second computes afterwards
SyncInTurn ==
    /\ pc # "synced"
    /\ LET delta == MyData_get_state_delta(a, MyData_get_state_vector(b))
           merged == MyData_merge(b, delta)
           delta2 == MyData_get_state_delta(merged, MyData_get_state_vector(a))
       IN /\ b' = merged
          /\ a' = MyData_merge(a, delta2)
          /\ c' = [kind |-> "Synced", crdt |-> a, crdt2 |-> b,
                   delta |-> delta, delta2 |-> delta2]
    /\ pc' = "synced"
    /\ UNCHANGED <<pairing, res, clockVars, netVars>>

NextDerive == UpdateFirst \/ UpdateSecond \/ SyncBoth \/ SyncInTurn

SpecDerive == InitDerive /\ [][NextDerive]_vars

(***************************************************************************)
(* Specification of a write that is to reach a peer: replica A writes with *)
(* set as in the specification of the writes; a peer B that holds the      *)
(* shelf A held before the last call then sends its state vector, merges   *)
(* the delta A answers with, and A merges the delta B answers with in      *)
(* turn.  shelf[0] is the shelf of A and shelf[1] the shelf of B after the *)
(* exchange, inbox holds the deltas that were delivered.                   *)
(***************************************************************************)
\* process_message of a StateVector: the delta the sender answers with
AnswerTo(sender, receiver) == get_state_delta(sender, get_state_vector(receiver))

\* process_message of a Delta; no message is sent for None
Receive(p, receiver, delta) ==
    IF delta = NoDelta THEN receiver ELSE MergeOf(p, receiver, delta)

Writer == 0
Peer == 1

PeerSync ==
    /\ pc = "set"
    /\ c.ok
    /\ shelf' = [r \in {Writer, Peer} |->
                   IF r = Peer THEN Receive(pairing, a, AnswerTo(b, a))
                   ELSE Receive(pairing, b,
                                AnswerTo(Receive(pairing, a, AnswerTo(b, a)), b))]
    /\ inbox' = [r \in {Writer, Peer} |->
                   IF r = Peer THEN <<AnswerTo(b, a)>>
                   ELSE <<AnswerTo(Receive(pairing, a, AnswerTo(b, a)), b)>>]
    /\ pc' = "reached"
    /\ UNCHANGED <<pairing, lawVars, clockVars, status, edits, byzantine_split>>

NextReach == Set \/ PeerSync

SpecReach == InitWrites /\ [][NextReach]_vars

(***************************************************************************)
(* Specification of quiescence: every replica holds the shelf a, and the   *)
(* replicas go on advertising their state vectors to each other.  The last *)
(* advertisement and the delta answered are c.                             *)
(***************************************************************************)
InitQuiet ==
    /\ pairing \in Pairings
    /\ a \in Shelves(pairing)
    /\ b = Unset
    /\ c = Unset
    /\ res = NoRes
    /\ pc = "init"
    /\ ClockIdle
    /\ shelf = [r \in Clients |-> a]
    /\ inbox = <<>>
    /\ status = <<>>
    /\ edits = 0
    /\ byzantine_split = 0

\* send_update of r and process_message of q and then of r: q answers the
\* state vector of r with a Delta unless get_state_delta is None
Advertise(r, q) ==
    /\ r # q
    /\ edits < MaxEdits
    /\ c' = [kind |-> "Advertised", from |-> r, to |-> q,
             sv |-> get_state_vector(shelf[r]),
             delta |-> AnswerTo(shelf[q], shelf[r])]
    /\ shelf' = [shelf EXCEPT ![r] = Receive(pairing, shelf[r],
                                             AnswerTo(shelf[q], shelf[r]))]
    /\ edits' = edits + 1
    /\ pc' = "advertised"
    /\ UNCHANGED <<pairing, a, b, res, clockVars, inbox, status, byzantine_split>>

NextQuiet == \E r, q \in Clients : Advertise(r, q)

SpecQuiet == InitQuiet /\ [][NextQuiet]_vars

(***************************************************************************)
(* Specification of the order of delivery: two replicas hold the shelf a,  *)
(* the peers that hold b and c each answer its state vector with a delta,  *)
(* and the deltas arrive in one order at replica 0 and in the other order  *)
(* at replica 1.  inbox[r] holds the deltas in the order r received them.  *)
(***************************************************************************)
\* check_inbox over the Delta messages of the mailbox
RECURSIVE ReceiveAll(_, _, _)
ReceiveAll(p, receiver, deltas) ==
    IF deltas = <<>> THEN receiver
    ELSE ReceiveAll(p, Receive(p, receiver, Head(deltas)), Tail(deltas))

DeliverBoth ==
    /\ pc = "init"
    /\ inbox' = [r \in {0, 1} |->
                   IF r = 0 THEN <<AnswerTo(b, a), AnswerTo(c, a)>>
                   ELSE <<AnswerTo(c, a), AnswerTo(b, a)>>]
    /\ shelf' = [r \in {0, 1} |->
                   IF r = 0 THEN ReceiveAll(pairing, a, <<AnswerTo(b, a), AnswerTo(c, a)>>)
                   ELSE ReceiveAll(pairing, a, <<AnswerTo(c, a), AnswerTo(b, a)>>)]
    /\ pc' = "delivered"
    /\ UNCHANGED <<pairing, lawVars, clockVars, status, edits, byzantine_split>>

NextDelivery == DeliverBoth

SpecDelivery == InitAssoc /\ [][NextDelivery]_vars

(***************************************************************************)
(* The merge laws.                                                         *)
(***************************************************************************)
\* a shelf that garbage_collect leaves unchanged: no Map node has a child
\* whose clock is strictly less than its own
IsCollected(s) == garbage_collect(s) = s

\* C1: merge is commutative: in every clock pairing, a.merge(b) and
\* b.merge(a) are the same shelf, values and clocks included.
C1_Commutative == pc = "merged" => res.ab = res.ba

\* C2: merge is idempotent: a.merge(a) is a, for a Value and for a Map of
\* any depth, in every clock pairing.
C2_Idempotent == pc = "self_merged" => res.aa = a

\* C2 witness: a Map holding a nested Map with a leaf was merged with itself
C2_Witness ==
    /\ pc = "self_merged"
    /\ IsMap(a)
    /\ \E k \in DOMAIN a.shelves :
          IsMap(a.shelves[k]) /\ a.shelves[k].shelves # <<>>
    /\ res.aa = a

\* C3: merge is associative: a.merge(b).merge(c) and a.merge(b.merge(c)) are
\* the same shelf.
C3_Associative == pc = "merged3" => res.abc = res.a_bc

\* C4 as stated: whenever b.get_state_delta(a.get_state_vector()) is Some(d),
\* a.merge(d) is a.merge(b), for every pair of shelves.
C4_DeltaCorrect_Original ==
    (pc = "delta_merged" /\ res.d # NoDelta) => res.ad = res.ab

\* C4 (amended): whenever b is garbage-collected and
\* b.get_state_delta(a.get_state_vector()) is Some(d), a.merge(d) is
\* a.merge(b).
C4_DeltaCorrect ==
    (pc = "delta_merged" /\ res.d # NoDelta /\ IsCollected(b)) => res.ad = res.ab

\* C4 witness: a garbage-collected b answered with a delta that is a proper
\* part of b, and the delta changed a
C4_Witness ==
    /\ pc = "delta_merged"
    /\ IsCollected(b)
    /\ res.d \notin {NoDelta, b}
    /\ res.ad # a
    /\ res.ad = res.ab

\* C5: a duplicated delta is harmless: merging d into a.merge(d) again gives
\* a.merge(d), for the delta d that b computes against a's state vector and
\* for a whole shelf b received as a delta (the delta against an older state
\* vector).
C5_DeltaIdempotent ==
    /\ (pc = "delta_merged" /\ res.d # NoDelta) => res.add = res.ad
    /\ pc = "merged" => res.abb = res.ab

\* C5 witness: a delta that changed a Map a, child by child, was applied twice
C5_Witness ==
    /\ pc = "delta_merged"
    /\ res.d # NoDelta
    /\ IsMap(a) /\ IsMap(res.d)
    /\ ShelfClockCmp(a.clock, res.d.clock) = Equal
    /\ DOMAIN a.shelves \cap DOMAIN res.d.shelves # {}
    /\ res.ad # a
    /\ res.add = res.ad


(***************************************************************************)
(* The laws of secure_merge.                                               *)
(***************************************************************************)
\* the key paths at which a shelf holds a leaf
RECURSIVE LeafPaths(_)
LeafPaths(s) ==
    IF IsValue(s) THEN {<<>>}
    ELSE UNION {{<<k>> \o p : p \in LeafPaths(s.shelves[k])} : k \in DOMAIN s.shelves}

\* the shelf found at a key path, Unset when the path leads nowhere
RECURSIVE At(_, _)
At(s, path) ==
    IF path = <<>> THEN s
    ELSE IF IsMap(s) /\ Head(path) \in DOMAIN s.shelves
         THEN At(s.shelves[Head(path)], Tail(path))
         ELSE Unset

\* a leaf that fails clock.verify(value)
FailingLeaf(s) == IsValue(s) /\ ~verify(s.clock, s.value)

\* C7: secure_merge never replaces a local leaf that verifies with a remote
\* leaf that fails verify: when all leaves of the local shelf verify, a leaf
\* that the result holds at a path of a local leaf is the local leaf or
\* verifies.
C7_NoFailingOverwrite ==
    (pc = "secured" /\ verify_contents(a) /\ res.sm # Panic) =>
        \A path \in LeafPaths(a) :
            ~FailingLeaf(At(res.sm, path))

\* a Map without the child under key k
Without(s, k) == MapShelf([j \in DOMAIN s.shelves \ {k} |-> s.shelves[j]], s.clock)

C9_Admitted ==
    /\ pc = "secured"
    /\ IsMap(a) /\ IsMap(b)
    /\ \E k \in DOMAIN b.shelves \ DOMAIN a.shelves :
          IsMap(res.sm) /\ k \in DOMAIN res.sm.shelves

(***************************************************************************)
(* The laws of the clocks.                                                 *)
(***************************************************************************)
\* C10: for each generator and every clock x, next(x) is strictly greater
\* than x under partial_cmp: the clocks a generator produces in a row form a
\* strictly increasing chain.
C10_NextIsGreater ==
    pc = "clock" =>
        \A i \in 1 .. Len(chain) - 1 :
            ShelfClockCmp(chain[i + 1], chain[i]) = Greater

(***************************************************************************)
(* The laws of the network.                                                *)
(***************************************************************************)
\* all clients hold structurally equal shelves
Converged == \A r, q \in Clients : shelf[r] = shelf[q]

\* C6: eventual convergence: once the local writes have stopped, all
\* replicas eventually hold structurally equal shelves and stay equal.
C6_Convergence == <>[]Converged

\* C8: Byzantine resilience: after every step every honest client holds
\* only leaves for which clock.verify(value) is true.
C8_HonestVerified ==
    pc \in {"running", "terminating"} =>
        \A r \in Clients : ~is_byzantine(r) => verify_contents(shelf[r])

\* C11: SecureClock binds a counter to a value: x.next(v) has the counter of
\* x plus 1 and verifies v; and a leaf built by SecureClock::new whose value
\* or counter is changed no longer verifies (the hash is collision-free).
C11_SecureBinding ==
    /\ \A i \in 1 .. Len(chain) - 1 :
          get_logical_clock(chain[i + 1]) = get_logical_clock(chain[i]) + 1
    /\ (pc = "clock" /\ a # Unset) =>
          a.clock = chain[Len(chain)] /\ verify(a.clock, a.value)
    /\ (pc = "tampered" /\ (a.value # b.value \/ a.clock.n # b.clock.n)) =>
          verify(b.clock, b.value) /\ ~verify(a.clock, a.value)

\* C11 witness: the counter of a leaf that verified was changed and the leaf
\* fails verify
C11_Witness ==
    /\ pc = "tampered"
    /\ Len(chain) > 2
    /\ a.value = b.value
    /\ a.clock.n # b.clock.n
    /\ verify(b.clock, b.value)
    /\ ~verify(a.clock, a.value)

\* the part of a Dot or Secure clock that is not the counter
Tag(clock) == IF clock.t = "D" THEN clock.id ELSE clock.h

\* C12: two Dot clocks or two Secure clocks with different counters are
\* ordered by counter alone; with equal counters they compare Equal iff
\* their client_id (Dot) or hash (Secure) is the same and are incomparable
\* otherwise; a Lamport clock and a Dot or Secure clock of equal counter are
\* incomparable.
C12_ClockOrder ==
    pc = "compared" =>
        /\ (a.t = b.t /\ a.t \in {"D", "S"}) =>
              /\ a.n < b.n => res.order = Less
              /\ a.n > b.n => res.order = Greater
              /\ a.n = b.n =>
                    /\ res.order = Equal <=> Tag(a) = Tag(b)
                    /\ Tag(a) # Tag(b) => res.order = NoOrder
        /\ (a.t # b.t /\ a.n = b.n) => res.order = NoOrder

\* C12 witness: two Secure clocks of equal counter and different hash were
\* compared and are incomparable
C12_Witness ==
    /\ pc = "compared"
    /\ a.t = "S" /\ b.t = "S"
    /\ a.n = b.n /\ a.h # b.h
    /\ res.order = NoOrder

\* C13: two Value leaves whose Dot clocks have the same counter and different
\* client ids merge to the same leaf in either order: the leaf of greater
\* type rank, within equal rank the leaf of greater value, and within equal
\* values one and the same leaf on both sides.
C13_DeterministicTiebreak ==
    pc = "merged" =>
        /\ res.ab = res.ba
        /\ res.ab \in {a, b}
        /\ ValueCmp(a.value, b.value) = Greater => res.ab = a
        /\ ValueCmp(a.value, b.value) = Less => res.ab = b

\* C14: a Map shelf (an empty one included) and a Value shelf whose clocks
\* have the same logical counter merge to the Map, whichever of the two is
\* self, and the delta the Map holder computes against the state vector of
\* the Value holder is the Map.
C14_StructureDominates ==
    /\ (/\ pc = "merged"
        /\ IsMap(a)
        /\ IsValue(b)
        /\ get_logical_clock(a.clock) = get_logical_clock(b.clock))
       => res.ab = a /\ res.ba = a
    /\ (/\ pc = "delta_merged"
        /\ IsValue(a)
        /\ IsMap(b)
        /\ get_logical_clock(a.clock) = get_logical_clock(b.clock))
       => res.d = b

\* the path of the key "x" in the shelf of a replica, given the writer w
OverwrittenPath(w) ==
    IF pairing = "LL" THEN <<ClientKey(w), "x">> ELSE <<"x">>

\* C15: replicas hold a Value under the same key with the same clocks; once
\* one replica has set the key to an empty map, the writer and every replica
\* that has advertised its state vector and merged the delta it got back hold
\* the key as an empty Map.
C15_OverwritePropagates ==
    \A w, r \in Clients :
        (status[w] = "wrote" /\ status[r] # "holding")
            => At(shelf[r], OverwrittenPath(w)) \in {MapShelf(<<>>, m) : m \in
                                                      {Lamport(n) : n \in 0 .. MaxClock + 1}}

C15_Witness ==
    /\ pc = "written"
    /\ \A r \in Clients : status[r] # "holding"
    /\ \E r \in Clients : status[r] = "synced"

\* the counter the top node of the shelf written by the last set should carry
ExpectedCounter ==
    LET parent == At(a, SubSeq(c.path, 1, Len(c.path) - 1))
        existing == At(a, c.path)
    IN IF existing = Unset THEN parent.clock.n + 1
       ELSE Max(Max(parent.clock.n, get_logical_clock(existing.clock)),
                IF IsMap(existing)
                THEN HighestChild(existing.shelves, DOMAIN existing.shelves)
                ELSE 0) + 1

\* C16: set(path, v) stamps the top node of the inserted shelf with the
\* counter max(counter of the parent Map, counter of the entry already at the
\* path if any, greatest counter among the children of that entry if it is a
\* Map) + 1; with no entry at the path the counter is the parent's plus one.
C16_WriteTimestamp ==
    (pc = "set" /\ c.ok)
        => get_logical_clock(At(b, c.path).clock) = ExpectedCounter

\* C17: a set that replaces an existing entry, be it a Value, an empty Map or
\* a non-empty Map, gives the new entry a logical counter strictly greater
\* than the counter of the entry it replaces.
C17_RewriteMonotone ==
    (pc = "set" /\ c.ok /\ At(a, c.path) # Unset)
        => get_logical_clock(At(b, c.path).clock)
              > get_logical_clock(At(a, c.path).clock)

\* C18: a set that writes a Value or a Map with children into a tree in
\* which no Map node has a child whose clock is strictly less than the Map's
\* own clock leaves a tree with the same property.
C18_ParentChildClocks ==
    (/\ pc = "set"
     /\ c.ok
     /\ c.json \in {j \in WrittenJson : j.json = "Value" \/ j.obj # <<>>}
     /\ IsCollected(a))
        => IsCollected(b)

\* the key paths of the nodes of a shelf, the root included
RECURSIVE NodePaths(_)
NodePaths(s) ==
    IF IsValue(s) THEN {<<>>}
    ELSE {<<>>} \cup UNION {{<<k>> \o p : p \in NodePaths(s.shelves[k])} :
                               k \in DOMAIN s.shelves}

\* C19: merge never moves a clock backwards: for every key path present in
\* a, the node at that path in a.merge(b), if there is one, has a clock that
\* is not strictly less than the clock a held at that path.
C19_ClocksNeverDecrease ==
    (pc = "merged" /\ res.ab # Panic) =>
        \A path \in NodePaths(a) :
            At(res.ab, path) # Unset
                => ShelfClockCmp(At(res.ab, path).clock, At(a, path).clock) # Less

\* C20: after any sequence of Awareness::new, set and merge(delta), whatever
\* shelf the peer sends as delta, Awareness.clients is a Map; the clients of
\* a new Awareness are an empty Map with clock zero.
C20_RootIsMap ==
    /\ IsMap(b)
    /\ c = NewCall => b = MapShelf(<<>>, Lamport(0))

\* some node of the shelf s strictly before the last segment of path is a Value
ValueOnPath(s, path) ==
    \E i \in 0 .. Len(path) - 1 : IsValue(At(s, SubSeq(path, 1, i)))

\* no node before the last segment is a Value and an intermediate key is absent
KeyAbsentOnPath(s, path) ==
    /\ ~ValueOnPath(s, path)
    /\ At(s, SubSeq(path, 1, Len(path) - 1)) = Unset

\* C21: set(path, v) returns the path-not-found error when an intermediate
\* key of the path is absent and the path-traverses-value error when a node
\* strictly before the last segment is a Value; both times the caller gets
\* the error and the shelf is left as it was.
C21_FailedWrites ==
    pc = "set" =>
        /\ KeyAbsentOnPath(a, c.path) => (c.result = Err(NoMapMsg) /\ b = a)
        /\ ValueOnPath(a, c.path) => (c.result = Err(OnValueMsg) /\ b = a)

\* C22: merge is total: for every pair of shelves, two leaves with
\* incomparable clocks and incomparable values (Float NaN) included, merge
\* returns a shelf and does not abort.
C22_MergeTotal ==
    pc = "merged" => (res.ab # Panic /\ res.ba # Panic)

\* the messages of the last apply_updates that carried a StateVector of a
\* peer other than the Doc itself
AdvertisementsHandled ==
    IF c.kind = "Applied"
    THEN {i \in DOMAIN c.handled :
             /\ c.handled[i].message.data.kind = "StateVector"
             /\ c.handled[i].message.data.sender # c.replica}
    ELSE {}

\* C23: a replica that receives a StateVector from a peer p other than
\* itself sends a Delta addressed to p if and only if get_state_delta returns
\* a delta that is not empty, sends nothing otherwise, and handling the
\* StateVector leaves its own state unchanged.
C23_AnswerAdvertisement ==
    \A i \in AdvertisementsHandled :
        LET h == c.handled[i]
            p == h.message.data.sender
            delta == Doc_get_state_delta(h.before, h.message.data.clocks)
        IN /\ h.after = h.before
           /\ IF DOMAIN delta # {}
              THEN h.sent = <<Multicast_send(c.replica, NoTarget, DocDelta(delta, p))>>
              ELSE h.sent = <<>>

\* the frame is a Message for the Multicast of this id: directed to it, or a
\* broadcast of another sender
AddressedTo(frame, id) ==
    /\ Decodes("Message", frame)
    /\ \/ frame.content.target = SomeTarget(id)
       \/ frame.content.target = NoTarget /\ frame.content.sender # id

\* the frames of the queue in front of the first one that is no Message
RECURSIVE Readable(_)
Readable(queue) ==
    IF queue = <<>> \/ ~Decodes("Message", Head(queue)) THEN <<>>
    ELSE <<Head(queue)>> \o Readable(Tail(queue))

\* the frames of the queue addressed to the Multicast of this id, in order
RECURSIVE AddressedFrames(_, _)
AddressedFrames(queue, id) ==
    IF queue = <<>> THEN <<>>
    ELSE (IF AddressedTo(Head(queue), id) THEN <<Head(queue)>> ELSE <<>>)
         \o AddressedFrames(Tail(queue), id)

\* a DocMessage that is not for the Doc of this id: its own StateVector, or
\* a Delta for another recipient
NotForDoc(data, id) ==
    \/ data.kind = "StateVector" /\ data.sender = id
    \/ data.kind = "Delta" /\ data.recipient # id

\* C24: a message not addressed to a replica has no effect.  The messages
\* that try_recv returns during apply_updates are exactly the readable frames
\* addressed to the replica, in order: never a broadcast sent under its own
\* id, never a directed message with another target, and such frames are
\* skipped to reach the next addressed one.  A StateVector whose sender is
\* the replica itself and a Delta whose recipient is another replica leave
\* the state unchanged and cause no send.
C24_NotAddressedNoEffect ==
    c.kind = "Applied" =>
        /\ [i \in DOMAIN c.handled |-> Serialize("Message", c.handled[i].message)]
               = AddressedFrames(Readable(c.queue), c.replica)
        /\ \A i \in DOMAIN c.handled :
               NotForDoc(c.handled[i].message.data, c.replica) =>
                   /\ c.handled[i].after = c.handled[i].before
                   /\ c.handled[i].sent = <<>>

\* apply_updates skipped a frame that was not addressed to the replica,
\* returned the addressed frame behind it, and that frame
\* carried a DocMessage that is not for this Doc
C24_Witness ==
    /\ c.kind = "Applied"
    /\ \E i, j \in DOMAIN c.queue :
          /\ i < j
          /\ j <= Len(Readable(c.queue))
          /\ ~AddressedTo(c.queue[i], c.replica)
          /\ AddressedTo(c.queue[j], c.replica)
          /\ NotForDoc(c.queue[j].content.data, c.replica)
          /\ \E k \in DOMAIN c.handled :
                /\ c.handled[k].message = c.queue[j].content
                /\ c.handled[k].after = c.handled[k].before
                /\ c.handled[k].sent = <<>>

\* C25: undecodable inbound data is dropped.  A replica handed bytes that
\* decode neither as a state vector nor as a delta discards them, keeps its
\* state, does not abort and goes on with the frames behind them: a frame in
\* the read socket that is no Message is consumed and the frames behind it
\* stay for the next call, bytes that are no delta give an error and no
\* merge, and bytes that are no state vector give no answer and no panic.
C25_UndecodableDropped ==
    /\ c.kind = "Applied" /\ Len(Readable(c.queue)) < Len(c.queue) =>
           /\ c.rest = SubSeq(c.queue, Len(Readable(c.queue)) + 2, Len(c.queue))
           /\ status[c.replica] = "running"
    /\ c.kind = "Decoded" /\ ~Decodes("Delta", c.bytes) =>
           /\ c.result = DecodeError
           /\ c.after = c.before
           /\ status[c.replica] = "running"
    /\ c.kind = "Encoded" /\ ~Decodes("StateVector", c.bytes) =>
           /\ c.result # Panic
           /\ c.after = c.before
           /\ status[c.replica] = "running"

\* C26: prune on a Map with clock m removes exactly the direct children
\* whose clock is strictly less than m and keeps every child whose clock is
\* greater than, equal to or incomparable with m; the clock of the Map and
\* the kept children are unchanged, and prune of a Value is that Value.
C26_PruneExact ==
    pc = "pruned" =>
        IF IsMap(a)
        THEN /\ IsMap(c.result)
             /\ c.result.clock = a.clock
             /\ \A k \in DOMAIN a.shelves :
                   LET order == ShelfClockCmp(a.shelves[k].clock, a.clock) IN
                   /\ order = Less => k \notin DOMAIN c.result.shelves
                   /\ order \in {Greater, Equal, NoOrder} =>
                         /\ k \in DOMAIN c.result.shelves
                         /\ c.result.shelves[k] = a.shelves[k]
             /\ DOMAIN c.result.shelves \subseteq DOMAIN a.shelves
        ELSE c.result = a

\* C26 witness: prune removed a child with a strictly smaller clock and kept
\* a child with an incomparable clock
C26_Witness ==
    /\ pc = "pruned"
    /\ IsMap(a)
    /\ \E j, k \in DOMAIN a.shelves :
          /\ ShelfClockCmp(a.shelves[j].clock, a.clock) = Less
          /\ ShelfClockCmp(a.shelves[k].clock, a.clock) = NoOrder
          /\ j \notin DOMAIN c.result.shelves
          /\ k \in DOMAIN c.result.shelves

\* the sequence without its last element
Front(path) == SubSeq(path, 1, Len(path) - 1)

\* no Map node of the shelf, at any depth, has a child whose clock is
\* strictly less than its own
NoStaleChild(s) ==
    \A path \in NodePaths(s) \ {<<>>} :
        ShelfClockCmp(At(s, path).clock, At(s, Front(path)).clock) # Less

\* the node at the path is stale: its clock is strictly less than the clock
\* of its parent
Stale(s, path) ==
    ShelfClockCmp(At(s, path).clock, At(s, Front(path)).clock) = Less

\* C27: garbage_collect establishes the parent-child clock invariant at
\* every depth: in the result no Map node has a child with a clock strictly
\* less than its own; every node that is gone had such a clock relative to
\* its parent or lay below a node that had; the nodes that stay keep their
\* clock and their value; and a second garbage_collect changes nothing.
C27_GarbageCollect ==
    pc = "collected" =>
        /\ NoStaleChild(c.result)
        /\ NodePaths(c.result) \subseteq NodePaths(a)
        /\ \A path \in NodePaths(a) \ NodePaths(c.result) :
              \E i \in 1 .. Len(path) : Stale(a, SubSeq(path, 1, i))
        /\ \A path \in NodePaths(c.result) :
              /\ At(c.result, path).clock = At(a, path).clock
              /\ At(c.result, path).kind = At(a, path).kind
              /\ IsValue(At(a, path)) => At(c.result, path) = At(a, path)
        /\ c.again = c.result

\* C27 witness: garbage_collect removed a stale child of a nested Map and a
\* whole sub-tree below a stale Map, in shelves of depth three
C27_Witness ==
    /\ pc = "collected"
    /\ \E path \in NodePaths(a) :
          /\ Len(path) = 2
          /\ path \notin NodePaths(c.result)
          /\ \/ Stale(a, path) /\ Front(path) \in NodePaths(c.result)
             \/ ~Stale(a, path) /\ Stale(a, Front(path))

\* C28: the merge of two Maps whose clocks are equal or incomparable
\* recurses: the keys of the result are the keys of both, a key of one side
\* only keeps the sub-tree of that side, values and clocks included, a key
\* of both sides holds the merge of the two children, and the clock of the
\* result is the maximum of the two map clocks.
C28_MapsRecurse ==
    (/\ pc = "merged"
     /\ IsMap(a)
     /\ IsMap(b)
     /\ ShelfClockCmp(a.clock, b.clock) \in {Equal, NoOrder})
        => /\ IsMap(res.ab)
           /\ DOMAIN res.ab.shelves = DOMAIN a.shelves \cup DOMAIN b.shelves
           /\ \A k \in DOMAIN a.shelves \ DOMAIN b.shelves :
                 res.ab.shelves[k] = a.shelves[k]
           /\ \A k \in DOMAIN b.shelves \ DOMAIN a.shelves :
                 res.ab.shelves[k] = b.shelves[k]
           /\ \A k \in DOMAIN a.shelves \cap DOMAIN b.shelves :
                 res.ab.shelves[k] = merge(a.shelves[k], b.shelves[k])
           /\ res.ab.clock \in {a.clock, b.clock}
           /\ ShelfClockCmp(res.ab.clock, a.clock) # Less
           /\ ShelfClockCmp(res.ab.clock, b.clock) # Less

\* C28 witness: two Maps of equal clock were merged, one with a key the
\* other lacks and both with a common key whose children differ
C28_Witness ==
    /\ pc = "merged"
    /\ IsMap(a)
    /\ IsMap(b)
    /\ ShelfClockCmp(a.clock, b.clock) = Equal
    /\ DOMAIN a.shelves \ DOMAIN b.shelves # {}
    /\ \E k \in DOMAIN a.shelves \cap DOMAIN b.shelves :
          /\ a.shelves[k] # b.shelves[k]
          /\ res.ab.shelves[k] = merge(a.shelves[k], b.shelves[k])
    /\ DOMAIN res.ab.shelves = DOMAIN a.shelves \cup DOMAIN b.shelves

\* C29: a strictly newer clock wins whatever the two shelves are: when the
\* clock of self is strictly less than the clock of other the merge is
\* exactly other, when it is strictly greater the merge is exactly self, be
\* each side a Value, an empty Map or a Map with children; no child of the
\* side that loses is left.
C29_NewerClockWins ==
    pc = "merged" =>
        /\ ShelfClockCmp(a.clock, b.clock) = Less => res.ab = b
        /\ ShelfClockCmp(a.clock, b.clock) = Greater => res.ab = a

\* C29 witness: a Map with children lost against an empty Map of a strictly
\* greater clock, and none of its children is left
C29_Witness ==
    /\ pc = "merged"
    /\ IsMap(a)
    /\ a.shelves # <<>>
    /\ b = MapShelf(<<>>, b.clock)
    /\ ShelfClockCmp(a.clock, b.clock) = Less
    /\ res.ab = b
    /\ res.ba = b

\* C30: one round of mutual delta exchange makes two replicas equal: for
\* garbage-collected shelves a and b with Lamport map clocks and Dot value
\* clocks, a merged with the delta of b against the state vector of a is the
\* same shelf as b merged with the delta of a against the state vector of b,
\* no delta meaning no change, and the first delta applied once more
\* changes nothing.
C30_MutualExchange ==
    pc = "exchanged" =>
        /\ c.receiver = c.receiver_back
        /\ c.again = c.receiver

\* the delta the rule table gives for a child of a Map: the delta against the
\* entry of the state vector when it has one, nothing for a child strictly
\* below the map clock of the state vector, the child itself otherwise
ChildDeltaByRule(s, sv, k) ==
    IF k \in DOMAIN sv.children
    THEN get_state_delta(s.shelves[k], sv.children[k])
    ELSE IF ShelfClockCmp(s.shelves[k].clock, sv.clock) = Less THEN NoDelta
    ELSE s.shelves[k]

\* the Map of the child deltas that are not None
ChildDeltasByRule(s, sv) ==
    MapShelf([k \in {j \in DOMAIN s.shelves : ChildDeltaByRule(s, sv, j) # NoDelta}
                 |-> ChildDeltaByRule(s, sv, k)], s.clock)

\* the rows of the rule table that end in None or in a clone of the node
LeafRowsOfRuleTable(s, sv, d) ==
    LET co == ShelfClockCmp(s.clock, sv.clock) IN
    /\ co = Less => d = NoDelta
    /\ co = Greater => d = s
    /\ (co = Equal /\ ~(IsMap(s) /\ sv.kind = "Node")) => d = NoDelta
    /\ (co = NoOrder /\ IsValue(s) /\ sv.kind = "Node") => d = NoDelta
    /\ (co = NoOrder /\ IsValue(s) /\ sv.kind = "Leaf") => d = s

\* the node is a Map, the state vector a Node, the clocks equal or incomparable
MapAgainstNode(s, sv) ==
    /\ IsMap(s)
    /\ sv.kind = "Node"
    /\ ShelfClockCmp(s.clock, sv.clock) \in {Equal, NoOrder}

SubTreeOf(d, s) ==
    \A path \in NodePaths(d) :
        /\ At(s, path) # Unset
        /\ At(d, path).kind = At(s, path).kind
        /\ At(d, path).clock = At(s, path).clock
        /\ IsValue(At(d, path)) => At(d, path) = At(s, path)

\* the key paths at which the shelf holds a Map with no children
EmptyMapPaths(s) ==
    {path \in NodePaths(s) : IsMap(At(s, path)) /\ At(s, path).shelves = <<>>}

\* at this path the sender is strictly ahead of the receiver, or the
\* receiver holds a Value, whose state vector is a Leaf
AheadOrLeaf(sender, receiver, path) ==
    /\ At(receiver, path) # Unset
    /\ \/ ShelfClockCmp(At(sender, path).clock, At(receiver, path).clock) = Greater
       \/ IsValue(At(receiver, path))

\* C32 as stated: a delta is a sub-tree of its sender, and a Map node of the
\* delta with no children occurs only where the clock of the sender at that
\* path is strictly greater than the clock of the state vector or the state
\* vector holds a Leaf there.
C32_DeltaSubTree_Original ==
    (pc = "delta_merged" /\ res.d # NoDelta) =>
        /\ SubTreeOf(res.d, b)
        /\ \A path \in EmptyMapPaths(res.d) : AheadOrLeaf(b, a, path)

\* C32 (amended): a delta is a sub-tree of its sender: every node of the
\* delta sits at a key path of the sender with the same clock, every leaf
\* carries the sender's value, and a Map node of the delta with no children
\* occurs only in a part of the sender that was cloned whole: at that path or
\* at a path above it the sender is strictly ahead of the state vector, or
\* the state vector holds a Leaf, or the state vector has no entry.
C32_DeltaSubTree ==
    (pc = "delta_merged" /\ res.d # NoDelta) =>
        /\ SubTreeOf(res.d, b)
        /\ \A path \in EmptyMapPaths(res.d) :
              /\ At(b, path).shelves = <<>>
              /\ \E i \in 0 .. Len(path) :
                    \/ AheadOrLeaf(b, a, SubSeq(path, 1, i))
                    \/ At(a, SubSeq(path, 1, i)) = Unset

\* C32 witness: a Map answered a Node of equal clock child by child, and the
\* delta holds, below its root, a Map with no children that the state vector
\* has no entry for
C32_Witness ==
    /\ pc = "delta_merged"
    /\ res.d # NoDelta
    /\ MapAgainstNode(b, get_state_vector(a))
    /\ SubTreeOf(res.d, b)
    /\ \E path \in EmptyMapPaths(res.d) :
          /\ path # <<>>
          /\ At(a, path) = Unset

\* C33: partial verification failure in secure_merge: when the remote
\* shelf is a Map whose clock is strictly greater than the local clock and
\* only some of its leaves fail verify, every leaf is judged on its own: the
\* failing leaves are absent from the result and the verifying leaves of the
\* remote Map are present in it.
C33_PartialVerification ==
    (/\ pc = "secured"
     /\ IsMap(b)
     /\ ShelfClockCmp(a.clock, b.clock) = Less
     /\ \E p \in LeafPaths(b) : FailingLeaf(At(b, p))
     /\ \E p \in LeafPaths(b) : ~FailingLeaf(At(b, p)))
        => \A p \in LeafPaths(b) :
              IF FailingLeaf(At(b, p)) THEN At(res.sm, p) # At(b, p)
              ELSE At(res.sm, p) = At(b, p)

\* the shelf has the shape and the values of the JSON contents
RECURSIVE HoldsJson(_, _)
HoldsJson(s, json) ==
    IF s = Unset THEN FALSE
    ELSE IF json.json = "Value" THEN IsValue(s) /\ s.value = json.value
    ELSE /\ IsMap(s)
         /\ DOMAIN s.shelves = DOMAIN json.obj
         /\ \A k \in DOMAIN json.obj : HoldsJson(s.shelves[k], json.obj[k])

\* C34: Awareness set addresses the tree from its root: set(path, v) writes
\* the entry reached by following exactly the segments of path from the root
\* map, the id of the replica is not put in front, so the first segment of
\* path is the top-level key that is written or traversed: after a
\* successful set the root holds v at path, and no other top-level key has
\* changed.
C34_SetFromRoot ==
    (pc = "set" /\ c.kind = "Call" /\ c.ok) =>
        /\ HoldsJson(At(b, c.arg), c.json)
        /\ \A k \in (DOMAIN a.shelves \cup DOMAIN b.shelves) \ {c.arg[1]} :
              At(b, <<k>>) = At(a, <<k>>)

\* C35: shutdown is terminal: once a client has taken Terminate from its
\* inbox it edits its shelf no more and sends no further state vector, and
\* the shelf Client::step returns is the shelf held when Terminate was taken
C35_ShutdownTerminal ==
    (c.kind = "Returned") =>
        /\ ~c.edited_after
        /\ ~c.sent_after
        /\ c.returned = c.held

\* the field a replica holds after merging the delta field other, by the
\* rule: the remote field when its clock is greater, the greater value at
\* equal clocks, else the field held before
FieldByRule(field, other) ==
    IF other = NoField THEN field
    ELSE IF other.time > field.clocks THEN Crdt(other.val, other.time)
    ELSE IF other.time = field.clocks
         THEN Crdt(IF other.val > field.state THEN other.val ELSE field.state,
                   field.clocks)
    ELSE field

\* C36: two derived CRDT replicas created from the same data and updated
\* locally hold, after each has merged the state delta of the other, the
\* same value and the same clock in every field; a merged field is the
\* remote one when its clock is greater and holds the greater value at
\* equal clocks
C36_DerivedConverges ==
    (pc = "synced") =>
        /\ \A prop \in Props :
              /\ a[prop].state = b[prop].state
              /\ a[prop].clocks = b[prop].clocks
        /\ \A prop \in Props :
              /\ b[prop] = FieldByRule(c.crdt2[prop], c.delta[prop])
              /\ a[prop] = FieldByRule(c.crdt[prop], c.delta2[prop])

\* both replicas were updated, to equal clocks and different data, before
\* the exchange
C36_Witness ==
    /\ pc = "synced"
    /\ \A prop \in Props : c.crdt[prop].clocks = c.crdt2[prop].clocks
    /\ c.crdt.name.clocks > 0
    /\ c.crdt.name.state < c.crdt2.name.state
    /\ c.crdt.fav_num.state > c.crdt2.fav_num.state
    /\ a = b

\* C37: when a peer holds the shelf the writer held before a successful
\* set(path, v), then after the peer has sent its state vector and merged
\* the delta answered, its entry at path equals the entry of the writer,
\* and merging the delta of the peer leaves the entry of the writer as it is
C37_WriteReachesPeer ==
    (pc = "reached") =>
        /\ At(shelf[Peer], c.path) = At(b, c.path)
        /\ At(shelf[Writer], c.path) = At(b, c.path)

\* C38: the delta of a shelf against its own state vector is None: replicas
\* that hold equal shelves answer no advertisement with a Delta and keep
\* their shelves
C38_Quiescence ==
    /\ get_state_delta(a, get_state_vector(a)) = NoDelta
    /\ \A r \in Clients : shelf[r] = a
    /\ (c.kind = "Advertised") => c.delta = NoDelta

\* a second advertisement between replicas that hold a Map with a nested Map
C38_Witness ==
    /\ c.kind = "Advertised"
    /\ edits >= 2
    /\ IsMap(a)
    /\ \E k \in DOMAIN a.shelves : IsMap(a.shelves[k]) /\ a.shelves[k].shelves # <<>>
    /\ c.sv = get_state_vector(a)
    /\ c.delta = NoDelta

\* C39: merging two deltas that peers computed with get_state_delta into a
\* shelf yields the same shelf in either order of delivery
C39_DeliveryOrder ==
    (pc = "delivered") => shelf[0] = shelf[1]

\* path is a proper prefix of the key path other
ProperPrefix(path, other) ==
    Len(path) < Len(other) /\ SubSeq(other, 1, Len(path)) = path

\* the frame of a write at the key path of the shelf before into the shelf
\* after: the Maps above the path keep their clocks, and every node that
\* is neither above nor at or below the path is as it was
FrameOfWrite(before, after, path) ==
    \A node \in NodePaths(before) \cup NodePaths(after) :
        IF ProperPrefix(node, path)
        THEN /\ At(before, node) # Unset
             /\ At(after, node) # Unset
             /\ At(after, node).clock = At(before, node).clock
        ELSE (node # path /\ ~ProperPrefix(path, node)) =>
                 At(after, node) = At(before, node)

\* C40: a successful set(path, v) changes only the entry at path: the clock
\* of the root and of every Map above the path and every sibling sub-tree
\* are as before, and the call returns the shelf that was stored at path,
\* nothing when the entry was vacant
C40_FrameOfWrite ==
    (pc = "set" /\ c.kind = "Call" /\ c.ok) =>
        /\ FrameOfWrite(a, b, c.arg)
        /\ c.result.old = IF At(a, c.arg) = Unset THEN NoShelf ELSE At(a, c.arg)

====
